---- MODULE Spec2Model ----
(***************************************************************************)
(* A model of the channel layer of the colour library: the channel format  *)
(* casts (channel/cast.rs), the scalar interpolation and the bounds of     *)
(* channels (channel/scalar.rs), the xyY chromaticities (xyy.rs), the      *)
(* contract operations of colours (alpha.rs, ycbcr/), the YCbCr <-> RGB    *)
(* transforms (ycbcr/), the flattening of Alpha colours (alpha.rs), the    *)
(* casts between angle units (channel/cast.rs) and Lab <-> XYZ (lab.rs).   *)
(*                                                                         *)
(* Numbers.  The evaluator's integers are 32 bits wide, the program's are  *)
(* up to 64, so an unsigned integer is a little-endian sequence of 8-bit   *)
(* limbs (<<0, 1>> is 256).  A float is the rational neg*num/den of two    *)
(* such sequences.  The casts, the interpolation and the YCbCr machine     *)
(* compute it exactly, with the rounding of u32/u64 -> float conversions   *)
(* (RoundToBits); the other machines round every float operation to the    *)
(* mantissa of its type (RoundDyadic, RoundQuot).                          *)
(***************************************************************************)
EXTENDS Integers, Sequences, FiniteSets, TLC

VARIABLES inp, out, trace, status

vars == <<inp, out, trace, status>>

(***************************************************************************)
(* Bounds of the model.                                                    *)
(***************************************************************************)
\* the number of casts applied in a row to one input
MaxCasts == 2
\* float inputs are the multiples of 1/FloatGrid in [-1, 2], plus the edges
FloatGrid == 4
\* lerp positions are the multiples of 1/2^PosBits in [-1, 2]
PosBits == 2
\* integer lerp operands are LerpCount + 1 values spread over the type's range
LerpCount == 12
\* 8-bit YCbCr channels are YCount + 1 values spread over 0..255
YCount == 5

\* xyY chromaticities and setter arguments are the multiples of 1/XyGrid
XyGrid == 5
\* the number of setters applied in a row to one xyY colour
MaxSets == 1
\* the number of contract operations applied in a row to one colour
MaxOps == 2

\* 8-bit gray inputs are 0 .. GrayMax, 128 and 255
GrayMax == 60
\* f64 lerp positions are the multiples of 1/PosGrid and of 1/(PosGrid + 3)
PosGrid == 7
\* the slices handed to from_slice have up to MaxSlice elements
MaxSlice == 5
(***************************************************************************)
(* Limb arithmetic.                                                        *)
(***************************************************************************)
Base == 256

Zeros(n) == [i \in 1..n |-> 0]

Pad(a, n) == IF Len(a) >= n THEN a ELSE a \o Zeros(n - Len(a))

IsZeroL(a) == \A i \in 1..Len(a) : a[i] = 0

\* the number of limbs up to the most significant non-zero one
TopLimb(a) ==
    IF IsZeroL(a) THEN 0
    ELSE CHOOSE i \in 1..Len(a) : a[i] # 0 /\ \A j \in (i + 1)..Len(a) : a[j] = 0

Trim(a) == IF TopLimb(a) = 0 THEN <<0>> ELSE SubSeq(a, 1, TopLimb(a))

RECURSIVE ToLimbs(_)
ToLimbs(k) == IF k < Base THEN <<k>> ELSE <<k % Base>> \o ToLimbs(k \div Base)

\* the value of a limb sequence that is known to be small
RECURSIVE ToNat(_)
ToNat(a) == IF Len(a) = 0 THEN 0 ELSE a[1] + Base * ToNat(Tail(a))

\* -1, 0 or 1 as a < b, a = b or a > b
CmpL(a, b) ==
    LET n == IF Len(a) > Len(b) THEN Len(a) ELSE Len(b)
        A == Pad(a, n)
        B == Pad(b, n)
        D == {i \in 1..n : A[i] # B[i]}
    IN  IF D = {} THEN 0
        ELSE LET m == CHOOSE i \in D : \A j \in D : j <= i
             IN  IF A[m] < B[m] THEN -1 ELSE 1

LeqL(a, b) == CmpL(a, b) <= 0

LtL(a, b) == CmpL(a, b) < 0

RECURSIVE AddFrom(_, _, _, _)
AddFrom(A, B, i, carry) ==
    IF i > Len(A) THEN (IF carry = 0 THEN <<>> ELSE <<carry>>)
    ELSE LET s == A[i] + B[i] + carry
         IN  <<s % Base>> \o AddFrom(A, B, i + 1, s \div Base)

AddL(a, b) ==
    LET n == IF Len(a) > Len(b) THEN Len(a) ELSE Len(b)
    IN  AddFrom(Pad(a, n), Pad(b, n), 1, 0)

RECURSIVE SubFrom(_, _, _, _)
SubFrom(A, B, i, borrow) ==
    IF i > Len(A) THEN <<>>
    ELSE LET s == A[i] - B[i] - borrow
         IN  IF s < 0 THEN <<s + Base>> \o SubFrom(A, B, i + 1, 1)
             ELSE <<s>> \o SubFrom(A, B, i + 1, 0)

\* a - b for a >= b
SubL(a, b) ==
    LET n == IF Len(a) > Len(b) THEN Len(a) ELSE Len(b)
    IN  SubFrom(Pad(a, n), Pad(b, n), 1, 0)

RECURSIVE ColSum(_, _, _, _)
ColSum(a, b, j, i) ==
    IF i > Len(a) THEN 0
    ELSE (IF (j - i + 1) \in 1..Len(b) THEN a[i] * b[j - i + 1] ELSE 0)
         + ColSum(a, b, j, i + 1)

RECURSIVE MulFrom(_, _, _, _)
MulFrom(a, b, j, carry) ==
    IF j > Len(a) + Len(b) THEN <<>>
    ELSE LET s == ColSum(a, b, j, 1) + carry
         IN  <<s % Base>> \o MulFrom(a, b, j + 1, s \div Base)

\* the full product, Len(a) + Len(b) limbs
MulL(a, b) == MulFrom(a, b, 1, 0)

RECURSIVE Pow2(_)
Pow2(k) == IF k = 0 THEN 1 ELSE 2 * Pow2(k - 1)

Pow2L(s) == Zeros(s \div 8) \o <<Pow2(s % 8)>>

\* one quotient digit: the largest q in 0..255 with q * b <= r, bit by bit
RECURSIVE Digit(_, _, _, _)
Digit(r, b, q, k) ==
    IF k < 0 THEN q
    ELSE LET t == q + Pow2(k)
         IN  IF LeqL(MulL(<<t>>, b), r) THEN Digit(r, b, t, k - 1)
             ELSE Digit(r, b, q, k - 1)

\* long division from the most significant limb down; q collects the digits
RECURSIVE DivFrom(_, _, _, _, _)
DivFrom(a, b, i, rem, q) ==
    IF i = 0 THEN [q |-> q, r |-> rem]
    ELSE LET r1 == Trim(<<a[i]>> \o rem)
             d  == Digit(r1, b, 0, 7)
             r2 == Trim(SubL(r1, MulL(<<d>>, b)))
         IN  IF Len(r2) > 0 THEN DivFrom(a, b, i - 1, r2, <<d>> \o q)
             ELSE [q |-> q, r |-> rem]

\* the same by a divisor m below 2^16, on the evaluator's integers
RECURSIVE DivShort(_, _, _, _, _)
DivShort(a, m, i, rem, q) ==
    IF i = 0 THEN [q |-> q, r |-> ToLimbs(rem)]
    ELSE LET r1 == rem * Base + a[i]
             d  == r1 \div m
             r2 == r1 % m
         IN  IF r2 >= 0 /\ d >= 0 THEN DivShort(a, m, i - 1, r2, <<d>> \o q)
             ELSE [q |-> q, r |-> ToLimbs(rem)]

\* quotient (Len(a) limbs) and remainder of a by b, b # 0
DivModL(a, b) ==
    IF Len(Trim(b)) <= 2 THEN DivShort(a, ToNat(Trim(b)), Len(a), 0, <<>>)
    ELSE DivFrom(a, b, Len(a), <<0>>, <<>>)

BitLen(a) ==
    IF IsZeroL(a) THEN 0
    ELSE LET t == TopLimb(a)
         IN  8 * (t - 1) + (CHOOSE k \in 1..8 : Pow2(k - 1) <= a[t] /\ a[t] < Pow2(k))

(***************************************************************************)
(* Channel values.  An integer channel of type u8, u16, u32 or u64 is a    *)
(* limb sequence of the type's width; a float channel is neg * num / den.  *)
(***************************************************************************)
IntTypes == {"u8", "u16", "u32", "u64"}

FloatTypes == {"f32", "f64"}

Types == IntTypes \cup FloatTypes

Limbs(ty) == CASE ty = "u8" -> 1 [] ty = "u16" -> 2 [] ty = "u32" -> 4 [] ty = "u64" -> 8

\* the mantissa width of a float type
Mantissa(ty) == IF ty = "f32" THEN 24 ELSE 53

MaxL(n) == [i \in 1..n |-> 255]

IntVal(ty, a) == [ty |-> ty, neg |-> FALSE, num |-> a, den |-> <<1>>]

FloatVal(ty, neg, num, den) ==
    [ty |-> ty, neg |-> neg /\ ~IsZeroL(num), num |-> Trim(num), den |-> Trim(den)]

Ok(v) == {[st |-> "ok", val |-> v]}

Abort == [st |-> "abort", val |-> IntVal("u8", <<0>>)]

\* x = y, x <= y on the rationals
FEq(x, y) == x.neg = y.neg /\ CmpL(MulL(x.num, y.den), MulL(y.num, x.den)) = 0

FLeq(x, y) ==
    LET c == CmpL(MulL(x.num, y.den), MulL(y.num, x.den))
    IN  CASE x.neg /\ ~y.neg -> TRUE
          [] ~x.neg /\ y.neg -> FALSE
          [] x.neg /\ y.neg  -> c >= 0
          [] OTHER           -> c <= 0

FLt(x, y) == FLeq(x, y) /\ ~FEq(x, y)

(***************************************************************************)
(* The primitives of cast.rs.                                              *)
(***************************************************************************)
\* `v as uN` to a wider integer
AsWide(a, n) == Pad(a, n)

\* `v as uN` to a narrower integer keeps the low limbs
AsTrunc(a, n) == SubSeq(Pad(a, n), 1, n)

\* `v >> bits`: limb i of the result is made of limbs i + k and i + k + 1
Shr(a, bits) ==
    LET k  == bits \div 8
        r  == bits % 8
        at(i) == IF i <= Len(a) THEN a[i] ELSE 0
    IN  [i \in 1..Len(a) |-> (at(i + k) \div Pow2(r)) + (at(i + k + 1) % Pow2(r)) * Pow2(8 - r)]

\* the low `bits` bits of a
LowBits(a, bits) ==
    LET k == bits \div 8
        r == bits % 8
    IN  [i \in 1..Len(a) |-> IF i <= k THEN a[i] ELSE IF i = k + 1 THEN a[i] % Pow2(r) ELSE 0]

\* `a * b` on n-limb integers: an overflow panics in a build with overflow
\* checks and wraps in one without
MulInt(ty, a, b) ==
    LET n == Limbs(ty)
        p == MulL(a, b)
    IN  IF IsZeroL(SubSeq(p, n + 1, Len(p))) THEN Ok(IntVal(ty, SubSeq(p, 1, n)))
        ELSE {Abort} \cup Ok(IntVal(ty, SubSeq(p, 1, n)))

\* round to nearest, ties to even, on `bits` significant bits
RoundToBits(a, bits) ==
    IF BitLen(a) <= bits THEN Trim(a)
    ELSE LET s    == BitLen(a) - bits
             q0   == Shr(a, s)
             c    == CmpL(LowBits(a, s), Pow2L(s - 1))
             up   == c > 0 \/ (c = 0 /\ q0[1] % 2 = 1)
             q    == IF up THEN AddL(q0, <<1>>) ELSE q0
         IN  Trim(MulL(q, Pow2L(s)))

\* `v as f32`, `v as f64` from an integer
IntAsFloat(ty, a) == FloatVal(ty, FALSE, RoundToBits(a, Mantissa(ty)), <<1>>)

FDiv(x, y) == FloatVal(x.ty, x.neg # y.neg, MulL(x.num, y.den), MulL(x.den, y.num))

FMul(x, y) == FloatVal(x.ty, x.neg # y.neg, MulL(x.num, y.num), MulL(x.den, y.den))

\* f.floor()
FFloor(x) ==
    LET d == DivModL(x.num, x.den)
    IN  IF x.neg /\ ~IsZeroL(d.r) THEN FloatVal(x.ty, TRUE, AddL(d.q, <<1>>), <<1>>)
        ELSE FloatVal(x.ty, x.neg, d.q, <<1>>)

\* AsUInt as a checked conversion that panics out of the target's range
AsUInt_Checked(x, ty) ==
    LET n == Limbs(ty)
        t == Trim(DivModL(x.num, x.den).q)
    IN  IF IsZeroL(t) \/ (~x.neg /\ BitLen(t) <= 8 * n) THEN Ok(IntVal(ty, Pad(t, n)))
        ELSE {Abort}

\* `x as uN` from a float truncates toward zero.  Out of the target's range
\* the cast saturates since Rust 1.45 and is undefined behaviour before:
\* such a build yields the wrapped low bits or zero.
AsUInt(x, ty) ==
    LET n == Limbs(ty)
        t == Trim(DivModL(x.num, x.den).q)
    IN  IF IsZeroL(t) \/ (~x.neg /\ BitLen(t) <= 8 * n) THEN Ok(IntVal(ty, Pad(t, n)))
        ELSE Ok(IntVal(ty, IF x.neg THEN Zeros(n) ELSE MaxL(n)))
             \cup Ok(IntVal(ty, AsTrunc(t, n)))
             \cup Ok(IntVal(ty, Zeros(n)))

\* 255.99
F255_99(ty) == FloatVal(ty, FALSE, ToLimbs(25599), ToLimbs(100))

(***************************************************************************)
(* The 36 implementations of ChannelFormatCast, in the order of cast.rs.   *)
(***************************************************************************)
CastU8ToU8(v) == Ok(v)

\* CastU8ToU16 with the constant 0x0100, a plain shift
CastU8ToU16_ShiftOnly(v) == MulInt("u16", AsWide(v.num, 2), <<0, 1>>)

CastU8ToU16(v) == MulInt("u16", AsWide(v.num, 2), <<1, 1>>)

CastU8ToU32(v) == MulInt("u32", AsWide(v.num, 4), <<1, 1, 1, 1>>)

CastU8ToU64(v) == MulInt("u64", AsWide(v.num, 8), <<1, 1, 1, 1, 1, 1, 1, 1>>)

\* CastU8ToF32 with the divisor of the 16-bit cast
CastU8ToF32_WideMax(v) == Ok(FDiv(IntAsFloat("f32", v.num), IntAsFloat("f32", MaxL(2))))

CastU8ToF32(v) == Ok(FDiv(IntAsFloat("f32", v.num), IntAsFloat("f32", MaxL(1))))

CastU8ToF64(v) == Ok(FDiv(IntAsFloat("f64", v.num), IntAsFloat("f64", MaxL(1))))

CastU16ToU8(v) == Ok(IntVal("u8", AsTrunc(Shr(v.num, 8), 1)))

CastU16ToU16(v) == Ok(v)

CastU16ToU32(v) == MulInt("u32", AsWide(v.num, 4), <<1, 0, 1, 0>>)

CastU16ToU64(v) == MulInt("u64", AsWide(v.num, 8), <<1, 0, 1, 0, 1, 0, 1, 0>>)

CastU16ToF32(v) == Ok(FDiv(IntAsFloat("f32", v.num), IntAsFloat("f32", MaxL(2))))

CastU16ToF64(v) == Ok(FDiv(IntAsFloat("f64", v.num), IntAsFloat("f64", MaxL(2))))

\* CastU32ToU8 with the shift of the 16-bit target
CastU32ToU8_Shift16(v) == Ok(IntVal("u8", AsTrunc(Shr(v.num, 16), 1)))

CastU32ToU8(v) == Ok(IntVal("u8", AsTrunc(Shr(v.num, 24), 1)))

CastU32ToU16(v) == Ok(IntVal("u16", AsTrunc(Shr(v.num, 16), 2)))

CastU32ToU32(v) == Ok(v)

CastU32ToU64(v) == MulInt("u64", AsWide(v.num, 8), <<1, 0, 0, 0, 1, 0, 0, 0>>)

CastU32ToF32(v) == Ok(FDiv(IntAsFloat("f32", v.num), IntAsFloat("f32", MaxL(4))))

CastU32ToF64(v) == Ok(FDiv(IntAsFloat("f64", v.num), IntAsFloat("f64", MaxL(4))))

CastU64ToU8(v) == Ok(IntVal("u8", AsTrunc(Shr(v.num, 56), 1)))

CastU64ToU16(v) == Ok(IntVal("u16", AsTrunc(Shr(v.num, 48), 2)))

CastU64ToU32(v) == Ok(IntVal("u32", AsTrunc(Shr(v.num, 24), 4)))

CastU64ToU64(v) == Ok(v)

CastU64ToF32(v) == Ok(FDiv(IntAsFloat("f32", v.num), IntAsFloat("f32", MaxL(8))))

CastU64ToF64(v) == Ok(FDiv(IntAsFloat("f64", v.num), IntAsFloat("f64", MaxL(8))))

CastF32ToU8(v) == AsUInt(FFloor(FMul(v, F255_99("f32"))), "u8")

\* CastF32ToU16 biased as the 8-bit cast is: floor(x * 65535.99)
CastF32ToU16_Biased(v) ==
    AsUInt(FFloor(FMul(v, FloatVal("f32", FALSE, ToLimbs(6553599), ToLimbs(100)))), "u16")

CastF32ToU16(v) == AsUInt(FMul(v, IntAsFloat("f32", MaxL(2))), "u16")

CastF32ToU32(v) == AsUInt(FMul(v, IntAsFloat("f32", MaxL(4))), "u32")

CastF32ToU64(v) == AsUInt(FMul(v, IntAsFloat("f32", MaxL(8))), "u64")

CastF32ToF32(v) == Ok(v)

CastF32ToF64(v) == Ok([v EXCEPT !.ty = "f64"])

CastF64ToU8(v) == AsUInt(FFloor(FMul(v, F255_99("f64"))), "u8")

CastF64ToU16(v) == AsUInt(FMul(v, IntAsFloat("f64", MaxL(2))), "u16")

CastF64ToU32(v) == AsUInt(FMul(v, IntAsFloat("f64", MaxL(4))), "u32")

CastF64ToU64(v) == AsUInt(FMul(v, IntAsFloat("f64", MaxL(8))), "u64")

CastF64ToF32(v) == Ok([v EXCEPT !.ty = "f32"])

CastF64ToF64(v) == Ok(v)

\* <In as ChannelFormatCast<Out>>::cast, the outcomes of casting v to `to`
cast(v, to) ==
    CASE v.ty = "u8" ->
           (CASE to = "u8" -> CastU8ToU8(v) [] to = "u16" -> CastU8ToU16(v)
              [] to = "u32" -> CastU8ToU32(v) [] to = "u64" -> CastU8ToU64(v)
              [] to = "f32" -> CastU8ToF32(v) [] to = "f64" -> CastU8ToF64(v))
      [] v.ty = "u16" ->
           (CASE to = "u8" -> CastU16ToU8(v) [] to = "u16" -> CastU16ToU16(v)
              [] to = "u32" -> CastU16ToU32(v) [] to = "u64" -> CastU16ToU64(v)
              [] to = "f32" -> CastU16ToF32(v) [] to = "f64" -> CastU16ToF64(v))
      [] v.ty = "u32" ->
           (CASE to = "u8" -> CastU32ToU8(v) [] to = "u16" -> CastU32ToU16(v)
              [] to = "u32" -> CastU32ToU32(v) [] to = "u64" -> CastU32ToU64(v)
              [] to = "f32" -> CastU32ToF32(v) [] to = "f64" -> CastU32ToF64(v))
      [] v.ty = "u64" ->
           (CASE to = "u8" -> CastU64ToU8(v) [] to = "u16" -> CastU64ToU16(v)
              [] to = "u32" -> CastU64ToU32(v) [] to = "u64" -> CastU64ToU64(v)
              [] to = "f32" -> CastU64ToF32(v) [] to = "f64" -> CastU64ToF64(v))
      [] v.ty = "f32" ->
           (CASE to = "u8" -> CastF32ToU8(v) [] to = "u16" -> CastF32ToU16(v)
              [] to = "u32" -> CastF32ToU32(v) [] to = "u64" -> CastF32ToU64(v)
              [] to = "f32" -> CastF32ToF32(v) [] to = "f64" -> CastF32ToF64(v))
      [] v.ty = "f64" ->
           (CASE to = "u8" -> CastF64ToU8(v) [] to = "u16" -> CastF64ToU16(v)
              [] to = "u32" -> CastF64ToU32(v) [] to = "u64" -> CastF64ToU64(v)
              [] to = "f32" -> CastF64ToF32(v) [] to = "f64" -> CastF64ToF64(v))

(***************************************************************************)
(* The inputs of the casts.                                                *)
(***************************************************************************)
ByteSample == {0, 1, 127, 128, 254, 255}

\* every u8; for the wider types one limb from ByteSample at every place
\* among limbs that are all 0 or all 255
IntInputs(ty) ==
    IF ty = "u8" THEN {IntVal(ty, <<b>>) : b \in 0..255}
    ELSE {IntVal(ty, [j \in 1..Limbs(ty) |-> IF j = i THEN b ELSE fill]) :
            <<fill, i, b>> \in {0, 255} \X (1..Limbs(ty)) \X ByteSample}

\* the input below 1.0 that a multiplier of max + 0.99 takes to max exactly
BelowOne(fty, ity) ==
    LET m == MulL(MaxL(Limbs(ity)), ToLimbs(100))
    IN  FloatVal(fty, FALSE, m, AddL(m, ToLimbs(99)))

\* k / FloatGrid for -1 <= k / FloatGrid <= 2, the inputs BelowOne and their
\* neighbours
FloatInputs(ty) ==
    {FloatVal(ty, k < 0, ToLimbs(IF k < 0 THEN -k ELSE k), ToLimbs(FloatGrid)) :
        k \in (-FloatGrid)..(2 * FloatGrid)}
    \cup {BelowOne(ty, ity) : ity \in IntTypes}
    \cup {FloatVal(ty, FALSE, ToLimbs(k), ToLimbs(25599)) : k \in {25499, 25598}}
    \cup {FloatVal(ty, FALSE, ToLimbs(9999), ToLimbs(10000))}

CastInputs ==
    UNION {IntInputs(ty) : ty \in IntTypes} \cup UNION {FloatInputs(ty) : ty \in FloatTypes}

(***************************************************************************)
(* The cast machine: a channel value and the casts applied to it.          *)
(*   inp    the value the run started from                                 *)
(*   out    the value after the casts of trace                             *)
(*   trace  the types the value went through, the input's type first       *)
(*   status "ok", or "abort" once a cast panicked                          *)
(***************************************************************************)
InitCast ==
    /\ inp \in CastInputs
    /\ out = inp
    /\ trace = <<inp.ty>>
    /\ status = "ok"

DoCast(to) ==
    /\ status = "ok"
    /\ Len(trace) <= MaxCasts
    /\ "num" \in DOMAIN inp
    /\ \E o \in cast(out, to) :
          /\ status' = o.st
          /\ out' = IF o.st = "ok" THEN o.val ELSE out
    /\ trace' = Append(trace, to)
    /\ UNCHANGED inp

NextCast == \E to \in Types : DoCast(to)

SpecCast == InitCast /\ [][NextCast]_vars

(***************************************************************************)
(* Interpolation and YCbCr: every quantity fits the evaluator's integers,  *)
(* so an integer channel is a plain integer and a float is the exact       *)
(* fraction [n, d] of two integers, d > 0.                                 *)
(***************************************************************************)
Q(n, d) == [n |-> n, d |-> d]

QEq(x, y) == x.n * y.d = y.n * x.d

QLeq(x, y) == x.n * y.d <= y.n * x.d

\* truncation toward zero
TruncDiv(n, d) == IF n >= 0 THEN n \div d ELSE -((-n) \div d)

MaxOf(ty) == IF ty = "u8" THEN 255 ELSE 65535

\* num::cast::<f64, T>(x) for an integer T, then unwrap(): None, a panic,
\* at or beyond -1 and max + 1.  Strictly between -1 and 0 and between max
\* and max + 1 the num crate in use decides: releases that compare the float
\* with MIN and MAX return None, later ones truncate to 0 and max.
NumCastToInt(x, ty) ==
    LET t == TruncDiv(x.n, x.d)
    IN  IF x.n <= -x.d \/ x.n >= (MaxOf(ty) + 1) * x.d THEN {Abort}
        ELSE IF x.n >= 0 /\ x.n <= MaxOf(ty) * x.d THEN Ok(Q(t, 1))
        ELSE {Abort} \cup Ok(Q(t, 1))

\* the position's denominator
PosDen == Pow2(PosBits)

\* lerp_flat_int rounding to nearest instead of truncating
lerp_flat_int_Rounded(ty, left, right, k) ==
    LET inv_pos == PosDen - k
        val_p   == Q(2 * (left.n * inv_pos + right.n * k) + PosDen, 2 * PosDen)
    IN  NumCastToInt(val_p, ty)

\* lerp_flat_int(left, right, pos) with pos = k / PosDen
lerp_flat_int(ty, left, right, k) ==
    LET inv_pos == PosDen - k
        val_p   == Q(left.n * inv_pos + right.n * k, PosDen)
    IN  NumCastToInt(val_p, ty)

\* lerp_flat(left, right, pos) on floats
lerp_flat(left, right, k) ==
    LET inv_pos == PosDen - k
    IN  Ok(Q(left.n * inv_pos * right.d + right.n * k * left.d, left.d * right.d * PosDen))

\* <T as color::Lerp>::lerp
lerp(ty, left, right, k) ==
    IF ty \in IntTypes THEN lerp_flat_int(ty, left, right, k) ELSE lerp_flat(left, right, k)

LerpTypes == {"u8", "u16", "f32", "f64"}

LerpVals(ty) ==
    IF ty \in IntTypes
    THEN {Q((MaxOf(ty) * i) \div LerpCount, 1) : i \in 0..LerpCount}
         \cup {Q(v, 1) : v \in {1, 25, 55, 150, MaxOf(ty) - 1}}
    ELSE {Q(n, FloatGrid) : n \in (-FloatGrid)..FloatGrid}

LerpInputs ==
    UNION {{[ty |-> ty, left |-> l, right |-> r, pos |-> k] :
              l \in LerpVals(ty), r \in LerpVals(ty), k \in (-PosDen)..(2 * PosDen)} :
           ty \in LerpTypes}

(***************************************************************************)
(* The lerp machine: inp holds the operands and the position, out the      *)
(* result once trace = <<"lerp">>.                                         *)
(***************************************************************************)
InitLerp ==
    /\ inp \in LerpInputs
    /\ out = Q(0, 1)
    /\ trace = <<>>
    /\ status = "ok"

DoLerp ==
    /\ status = "ok"
    /\ trace = <<>>
    /\ "left" \in DOMAIN inp
    /\ \E o \in lerp(inp.ty, inp.left, inp.right, inp.pos) :
          /\ status' = o.st
          /\ out' = IF o.st = "ok" THEN o.val ELSE out
    /\ trace' = <<"lerp">>
    /\ UNCHANGED inp

NextLerp == DoLerp

SpecLerp == InitLerp /\ [][NextLerp]_vars

(***************************************************************************)
(* YCbCr -> RGB under JpegModel, for 8-bit and float channels.             *)
(***************************************************************************)
\* the denominator of the matrix entries
Milli10 == 10000

\* JpegModel::inverse_transform(), times Milli10, row by row
InverseTransform ==
    << <<10000, 0, 14020>>, <<10000, -3441, -7141>>, <<10000, 17720, 0>> >>

\* StandardShift::get_shift(): (0, (max >> 1) + 1, (max >> 1) + 1) for an
\* integer type, zero for a float
Shift(ty) ==
    IF ty \in IntTypes THEN <<Q(0, 1), Q(MaxOf(ty) \div 2 + 1, 1), Q(MaxOf(ty) \div 2 + 1, 1)>>
    ELSE <<Q(0, 1), Q(0, 1), Q(0, 1)>>

QSub(x, y) == Q(x.n * y.d - y.n * x.d, x.d * y.d)

\* Matrix3::transform_vector: the rows of the matrix times the vector; the
\* three components of v have one denominator
TransformVector(m, v) ==
    [i \in 1..3 |-> Q(m[i][1] * v[1].n + m[i][2] * v[2].n + m[i][3] * v[3].n, Milli10 * v[1].d)]

\* PosNormalChannelScalar::normalize and is_normalized of an RGB channel
NormalizeChannel(ty, x) ==
    IF ty \in IntTypes THEN x
    ELSE IF x.n > x.d THEN Q(1, 1) ELSE IF x.n < 0 THEN Q(0, 1) ELSE x

IsNormalizedChannel(ty, x) == ty \in IntTypes \/ (x.n >= 0 /\ x.n <= x.d)

\* num::cast(r).unwrap() into the channel type
NumCastChannel(x, ty) == IF ty \in IntTypes THEN NumCastToInt(x, ty) ELSE Ok(x)

\* BareYCbCr::to_rgb(&self, &JpegModel, out_of_gamut_mode)
to_rgb(c, mode) ==
    LET shift   == Shift(c.ty)
        shifted == <<QSub(c.luma, shift[1]), QSub(c.cb, shift[2]), QSub(c.cr, shift[3])>>
        rgb     == TransformVector(InverseTransform, shifted)
        Rgb(r, g, b) ==
            IF "abort" \in {r.st, g.st, b.st} THEN Abort
            ELSE LET out_ == <<r.val, g.val, b.val>>
                 IN  [st  |-> "ok",
                      val |-> [some |-> TRUE,
                               rgb  |-> IF mode = "Clip"
                                        THEN [i \in 1..3 |-> NormalizeChannel(c.ty, out_[i])]
                                        ELSE out_]]
    IN  {Rgb(r, g, b) : r \in NumCastChannel(rgb[1], c.ty),
                        g \in NumCastChannel(rgb[2], c.ty),
                        b \in NumCastChannel(rgb[3], c.ty)}

NoRgb == [some |-> FALSE, rgb |-> [i \in 1..3 |-> Q(0, 1)]]

\* <Rgb<T> as TryFromColor<YCbCr<T, M>>>::try_from_color
try_from_color(c) ==
    {IF o.st = "abort" THEN o
     ELSE IF \A i \in 1..3 : IsNormalizedChannel(c.ty, o.val.rgb[i]) THEN o
     ELSE [st |-> "ok", val |-> NoRgb] : o \in to_rgb(c, "Preserve")}

YTypes == {"u8", "f32", "f64"}

YVals(ty) ==
    IF ty \in IntTypes
    THEN {Q((255 * i) \div YCount, 1) : i \in 0..YCount} \cup {Q(v, 1) : v \in {50, 100, 128, 150}}
    ELSE {Q(n, FloatGrid) : n \in (-FloatGrid)..FloatGrid}

YInputs ==
    UNION {{[ty |-> ty, luma |-> y, cb |-> cb, cr |-> cr] :
              y \in {v \in YVals(ty) : v.n >= 0}, cb \in YVals(ty), cr \in YVals(ty)} :
           ty \in YTypes}

Modes == {"Preserve", "Clip"}

(***************************************************************************)
(* The YCbCr machine: inp holds the colour, out the RGB result of the      *)
(* operation that trace names.                                             *)
(***************************************************************************)
InitYCbCr ==
    /\ inp \in YInputs
    /\ out = NoRgb
    /\ trace = <<>>
    /\ status = "ok"

ToRgb(mode) ==
    /\ status = "ok"
    /\ trace = <<>>
    /\ "luma" \in DOMAIN inp
    /\ \E o \in to_rgb(inp, mode) :
          /\ status' = o.st
          /\ out' = IF o.st = "ok" THEN o.val ELSE out
    /\ trace' = <<"to_rgb", mode>>
    /\ UNCHANGED inp

TryFromColor ==
    /\ status = "ok"
    /\ trace = <<>>
    /\ "luma" \in DOMAIN inp
    /\ \E o \in try_from_color(inp) :
          /\ status' = o.st
          /\ out' = IF o.st = "ok" THEN o.val ELSE out
    /\ trace' = <<"try_from_color">>
    /\ UNCHANGED inp

NextYCbCr == (\E mode \in Modes : ToRgb(mode)) \/ TryFromColor

SpecYCbCr == InitYCbCr /\ [][NextYCbCr]_vars

(***************************************************************************)
(* Rounded float arithmetic, for xyY.  Every float operation of the code   *)
(* rounds its exact result to the nearest value of the type's mantissa     *)
(* width, ties to even, so a float is num / den with den a power of two,   *)
(* in lowest terms.  The exponent range is not modelled: the values here   *)
(* stay far from overflow and underflow.                                   *)
(***************************************************************************)
\* the number of zero bits below the lowest set bit of a, a # 0
TrailingZeros(a) ==
    LET i == CHOOSE j \in 1..Len(a) : a[j] # 0 /\ \A h \in 1..(j - 1) : a[h] = 0
    IN  8 * (i - 1) + (CHOOSE b \in 0..7 : a[i] % Pow2(b + 1) # 0 /\ a[i] % Pow2(b) = 0)

\* `a << bits`, on as many limbs as the result needs
Shl(a, bits) ==
    LET k  == bits \div 8
        r  == bits % 8
        at(i) == IF i >= 1 /\ i <= Len(a) THEN a[i] ELSE 0
    IN  [i \in 1..(Len(a) + k + 1) |->
            ((at(i - k) * Pow2(r)) % Base) + (at(i - k - 1) \div Pow2(8 - r))]

\* the largest q <= guess with q * b <= r
RECURSIVE DigitDown(_, _, _)
DigitDown(r, b, guess) ==
    IF guess = 0 \/ LeqL(MulL(<<guess>>, b), r) THEN guess ELSE DigitDown(r, b, guess - 1)

\* one quotient digit of r by b, r < 256 * b, b of three limbs or more: the
\* leading limbs of r by the two leading limbs of b never fall below it
QuotDigit(r, b) ==
    LET n    == Len(b)
        at(i) == IF i <= Len(r) THEN r[i] ELSE 0
        btop == b[n] * Base + b[n - 1]
        rtop == (at(n + 1) * Base + at(n)) * Base + at(n - 1)
        est  == (rtop + 1) \div btop
    IN  DigitDown(r, b, IF est > Base - 1 THEN Base - 1 ELSE est)

\* the digit d and what it leaves of r
DigitAndRest(r, b, d) == [d |-> d, r |-> Trim(SubL(r, MulL(<<d>>, b)))]

DivDigit(r, b) == DigitAndRest(r, b, QuotDigit(r, b))

\* long division as DivFrom, with the digits of QuotDigit: rem holds the
\* remainder so far with the limb i of a below it
RECURSIVE DivLong(_, _, _, _, _)
DivLongNext(a, b, i, s, q) ==
    IF Len(s.r) = 0 THEN [q |-> q, r |-> s.r]
    ELSE IF i = 1 THEN [q |-> <<s.d>> \o q, r |-> s.r]
    ELSE DivLong(a, b, i - 1, Trim(<<a[i - 1]>> \o s.r), <<s.d>> \o q)

DivLong(a, b, i, rem, q) == DivLongNext(a, b, i, DivDigit(rem, b), q)

\* quotient and remainder of a by b, b # 0
DivRem(a, b) ==
    IF Len(Trim(b)) <= 2 THEN DivShort(a, ToNat(Trim(b)), Len(a), 0, <<>>)
    ELSE DivLong(a, Trim(b), Len(a), Trim(<<a[Len(a)]>>), <<>>)

MinInt(a, b) == IF a < b THEN a ELSE b

MaxInt(a, b) == IF a > b THEN a ELSE b

\* m * 2^e with the c lowest bits of m, all zero, cut off when e < 0
DyadicCut(ty, neg, m, e, c) ==
    FloatVal(ty, neg, IF e >= 0 THEN Shl(m, e) ELSE Shr(m, c),
                      IF e >= 0 THEN <<1>> ELSE Pow2L(-e - c))

\* m * 2^e in lowest terms
Dyadic(ty, neg, m, e) ==
    DyadicCut(ty, neg, m, e,
              IF e >= 0 THEN 0 ELSE IF IsZeroL(m) THEN -e ELSE MinInt(TrailingZeros(m), -e))

\* q0 or q0 + 1 as the bits cut off compare (c) with one half: to nearest,
\* ties to even
RoundUp(q0, c) == IF c > 0 \/ (c = 0 /\ q0[1] % 2 = 1) THEN AddL(q0, <<1>>) ELSE q0

\* a * 2^e with the s lowest bits of a rounded away when s > 0
RoundAway(ty, neg, a, e, s) ==
    Dyadic(ty, neg,
           IF s <= 0 THEN a ELSE RoundUp(Shr(a, s), CmpL(LowBits(a, s), Pow2L(s - 1))),
           IF s <= 0 THEN e ELSE e + s)

\* a * 2^e rounded to the mantissa of ty: to nearest, ties to even
RoundDyadic(ty, neg, a, e) == RoundAway(ty, neg, a, e, BitLen(a) - Mantissa(ty))

\* the quotient qr with a sticky bit for the remainder, then the rounding
RoundSticky(ty, neg, qr, e) ==
    RoundDyadic(ty, neg, AddL(Shl(Trim(qr.q), 1), IF IsZeroL(qr.r) THEN <<0>> ELSE <<1>>), e)

\* the float nearest to n / d * 2^e: the quotient of n * 2^k by d
RoundShifted(ty, neg, n, d, e, k) ==
    RoundSticky(ty, neg, DivRem(Trim(Shl(n, k)), d), e - k - 1)

\* the float nearest to n / d * 2^e: the quotient on at least two bits more
\* than the mantissa
RoundQuot(ty, neg, n, d, e) ==
    IF IsZeroL(n) THEN [ty |-> ty, neg |-> FALSE, num |-> <<0>>, den |-> <<1>>]
    ELSE RoundShifted(ty, neg, n, d, e, MaxInt(Mantissa(ty) + 2 - (BitLen(n) - BitLen(d)), 0))

\* the exponent of the denominator of a float
DenExp(x) == BitLen(x.den) - 1

\* -c when both are negative, c when none is, else the sign decides
Signed(xneg, yneg, c) ==
    CASE xneg /\ ~yneg -> -1
      [] ~xneg /\ yneg -> 1
      [] xneg /\ yneg  -> -c
      [] OTHER         -> c

CmpAt(x, y, ex, ey) ==
    Signed(x.neg, y.neg, CmpL(Shl(x.num, MaxInt(ex, ey) - ex), Shl(y.num, MaxInt(ex, ey) - ey)))

\* -1, 0 or 1 as x < y, x = y or x > y
CmpF(x, y) == CmpAt(x, y, DenExp(x), DenExp(y))

\* a / 2^k + b / 2^k with the signs xneg and yneg; geq is b <= a
AddAligned(ty, xneg, yneg, a, b, k, geq) ==
    RoundDyadic(ty, IF xneg = yneg \/ geq THEN xneg ELSE yneg,
                Trim(IF xneg = yneg THEN AddL(a, b) ELSE IF geq THEN SubL(a, b) ELSE SubL(b, a)),
                -k)

AddNums(ty, xneg, yneg, a, b, k) == AddAligned(ty, xneg, yneg, a, b, k, LeqL(b, a))

AddAt(x, y, ex, ey) ==
    AddNums(x.ty, x.neg, y.neg, Shl(x.num, MaxInt(ex, ey) - ex), Shl(y.num, MaxInt(ex, ey) - ey),
            MaxInt(ex, ey))

\* the operators +, -, *, / of a float type
AddF(x, y) == AddAt(x, y, DenExp(x), DenExp(y))

FNeg(x) == FloatVal(x.ty, ~x.neg, x.num, x.den)

SubF(x, y) == AddF(x, FNeg(y))

MulF(x, y) ==
    RoundDyadic(x.ty, x.neg # y.neg, Trim(MulL(x.num, y.num)), -(DenExp(x) + DenExp(y)))

DivF(x, y) == RoundQuot(x.ty, x.neg # y.neg, x.num, y.num, DenExp(y) - DenExp(x))

\* the decimal literal n / d, or the result of num::cast on it, in type ty
Lit(ty, n, d) == RoundQuot(ty, n < 0, ToLimbs(IF n < 0 THEN -n ELSE n), ToLimbs(d), 0)

(***************************************************************************)
(* xyY (xyy.rs).  A colour is [ty, x, y, Y], an XYZ colour [ty, x, y, z],  *)
(* every channel a float of type ty.                                       *)
(***************************************************************************)
\* PosNormalBoundedChannel::min_bound(), max_bound() and 0.5 of a float type
Zero(ty) == FloatVal(ty, FALSE, <<0>>, <<1>>)

One(ty) == FloatVal(ty, FALSE, <<1>>, <<1>>)

OneHalf(ty) == FloatVal(ty, FALSE, <<1>>, <<2>>)

XyYColor(ty, x, y, Y) == [ty |-> ty, x |-> x, y |-> y, Y |-> Y]

XyzColor(ty, x, y, z) == [ty |-> ty, x |-> x, y |-> y, z |-> z]

\* XyY::from_channels that checks the sum only
from_channels_SumOnly(ty, x, y, Y) ==
    LET s == AddF(x, y)
    IN  IF CmpF(s, One(ty)) > 0 \/ CmpF(s, Zero(ty)) < 0 THEN {Abort}
        ELSE Ok(XyYColor(ty, x, y, Y))

\* XyY::from_channels(x, y, Y)
from_channels(ty, x, y, Y) ==
    LET s == AddF(x, y)
    IN  IF CmpF(s, One(ty)) > 0 \/ CmpF(s, Zero(ty)) < 0 THEN {Abort}
        ELSE IF ~(CmpF(x, Zero(ty)) >= 0) THEN {Abort}
        ELSE IF ~(CmpF(y, Zero(ty)) >= 0) THEN {Abort}
        ELSE Ok(XyYColor(ty, x, y, Y))

\* XyY::z(&self)
z(c) == SubF(SubF(One(c.ty), c.x), c.y)

\* XyY::rescale_channels that splits the remainder evenly in every case
rescale_channels_EvenSplit(ty, primary, c2, c3) ==
    IF CmpF(primary, One(ty)) > 0 \/ CmpF(primary, Zero(ty)) < 0 THEN {Abort}
    ELSE LET rem == SubF(One(ty), primary)
         IN  Ok(<<primary, MulF(rem, OneHalf(ty)), MulF(rem, OneHalf(ty))>>)

\* the channels after the rescaling, rem_scale being c2 + c3 and rem being
\* 1 - primary
Rescale(ty, primary, c2, c3, rem_scale, rem) ==
    IF CmpF(rem_scale, Zero(ty)) > 0
    THEN Ok(<<primary, MulF(DivF(c2, rem_scale), rem), MulF(DivF(c3, rem_scale), rem)>>)
    ELSE Ok(<<primary, MulF(rem, OneHalf(ty)), MulF(rem, OneHalf(ty))>>)

\* rescale_channels that checks the upper bound of primary alone
rescale_channels_UpperOnly(ty, primary, c2, c3) ==
    IF CmpF(primary, One(ty)) > 0 THEN {Abort}
    ELSE Rescale(ty, primary, c2, c3, AddF(c2, c3), SubF(One(ty), primary))

\* XyY::rescale_channels(primary, c2, c3)
rescale_channels(ty, primary, c2, c3) ==
    IF CmpF(primary, One(ty)) > 0 \/ CmpF(primary, Zero(ty)) < 0 THEN {Abort}
    ELSE Rescale(ty, primary, c2, c3, AddF(c2, c3), SubF(One(ty), primary))

\* the colour c with x and y replaced, or the panic of the rescaling
WithXy(c, o, ix, iy) ==
    IF o.st = "abort" THEN o
    ELSE [st |-> "ok", val |-> [c EXCEPT !.x = o.val[ix], !.y = o.val[iy]]]

\* XyY::set_x(&mut self, val)
set_x(c, val) == {WithXy(c, o, 1, 2) : o \in rescale_channels(c.ty, val, c.y, z(c))}

\* XyY::set_y(&mut self, val)
set_y(c, val) == {WithXy(c, o, 2, 1) : o \in rescale_channels(c.ty, val, c.x, z(c))}

\* XyY::set_z that keeps y and rescales x alone
set_z_KeepY(c, val) ==
    {IF o.st = "abort" THEN o ELSE [st |-> "ok", val |-> [c EXCEPT !.x = o.val[2]]] :
        o \in rescale_channels(c.ty, val, c.x, c.y)}

\* XyY::set_z(&mut self, val)
set_z(c, val) == {WithXy(c, o, 2, 3) : o \in rescale_channels(c.ty, val, c.x, c.y)}

\* <XyY<T> as FromColor<Xyz<T>>>::from_color
XyY_from_color(from) ==
    IF CmpF(from.x, Zero(from.ty)) < 0 \/ CmpF(from.y, Zero(from.ty)) < 0
       \/ CmpF(from.z, Zero(from.ty)) < 0
    THEN {Abort}
    ELSE LET sum == AddF(AddF(from.x, from.y), from.z)
         IN  IF CmpF(sum, Zero(from.ty)) # 0
             THEN from_channels(from.ty, DivF(from.x, sum), DivF(from.y, sum), from.y)
             ELSE from_channels(from.ty, Zero(from.ty), Zero(from.ty), Zero(from.ty))

\* <Xyz<T> as FromColor<XyY<T>>>::from_color
Xyz_from_color(from) ==
    IF CmpF(from.y, Zero(from.ty)) = 0
    THEN Ok(XyzColor(from.ty, Zero(from.ty), Zero(from.ty), Zero(from.ty)))
    ELSE Ok(XyzColor(from.ty,
                     MulF(DivF(from.Y, from.y), from.x),
                     from.Y,
                     MulF(DivF(from.Y, from.y), z(from))))

XyTypes == {"f32", "f64"}

\* the chromaticities and setter arguments: k / XyGrid from -1 / XyGrid to
\* 1 + 1 / XyGrid, as the type rounds them
XyGridVals == [ty \in XyTypes |-> {Lit(ty, k, XyGrid) : k \in (-1)..(XyGrid + 1)}]

XyVals(ty) == XyGridVals[ty]

\* the luminances -0.5 and 1.5
LumVals(ty) == {Lit(ty, -1, 2), Lit(ty, 3, 2)}

XyYInputs ==
    UNION {{XyYColor(ty, x, y, Y) : x \in XyVals(ty), y \in XyVals(ty), Y \in LumVals(ty)} :
           ty \in XyTypes}

\* the XYZ channels: -0.2, 0, 0.25, 2/7, 0.5, 0.8, 1 and 1.2
XyzVals(ty) ==
    {Lit(ty, f[1], f[2]) :
        f \in {<<-1, 5>>, <<0, 1>>, <<1, 4>>, <<2, 7>>, <<1, 2>>, <<4, 5>>, <<1, 1>>, <<6, 5>>}}

XyzInputs ==
    UNION {{XyzColor(ty, x, y, zz) : x \in XyzVals(ty), y \in XyzVals(ty), zz \in XyzVals(ty)} :
           ty \in XyTypes}

Op(name, val) == [op |-> name, val |-> val]

(***************************************************************************)
(* The xyY machine.  A run either builds a colour with from_channels and   *)
(* applies setters to it, or converts an XYZ colour to xyY and back.       *)
(*   inp    the arguments of the constructor, then the colour before the   *)
(*          last setter; the XYZ colour in a conversion run                *)
(*   out    the colour after the operations of trace                       *)
(*   trace  the operations applied, each with its argument                 *)
(*   status "ok", or "abort" once an operation panicked                    *)
(***************************************************************************)
InitXyY ==
    /\ inp \in XyYInputs \cup XyzInputs
    /\ out = inp
    /\ trace = <<>>
    /\ status = "ok"

FromChannels ==
    /\ status = "ok"
    /\ trace = <<>>
    /\ "Y" \in DOMAIN inp
    /\ \E o \in from_channels(inp.ty, inp.x, inp.y, inp.Y) :
          /\ status' = o.st
          /\ out' = IF o.st = "ok" THEN o.val ELSE out
    /\ trace' = <<Op("from_channels", Zero(inp.ty))>>
    /\ UNCHANGED inp

\* one of set_x, set_y, set_z on the colour built so far, results being
\* its outcomes
Setter(name, val, results) ==
    /\ status = "ok"
    /\ Len(trace) \in 1..MaxSets
    /\ \E o \in results :
          /\ status' = o.st
          /\ out' = IF o.st = "ok" THEN o.val ELSE out
    /\ inp' = out
    /\ trace' = Append(trace, Op(name, val))

SetX == "Y" \in DOMAIN inp /\ \E val \in XyVals(inp.ty) : Setter("set_x", val, set_x(out, val))

SetY == "Y" \in DOMAIN inp /\ \E val \in XyVals(inp.ty) : Setter("set_y", val, set_y(out, val))

SetZ == "Y" \in DOMAIN inp /\ \E val \in XyVals(inp.ty) : Setter("set_z", val, set_z(out, val))

XyYFromXyz ==
    /\ status = "ok"
    /\ trace = <<>>
    /\ "z" \in DOMAIN inp
    /\ \E o \in XyY_from_color(inp) :
          /\ status' = o.st
          /\ out' = IF o.st = "ok" THEN o.val ELSE out
    /\ trace' = <<Op("XyY::from_color", Zero(inp.ty))>>
    /\ UNCHANGED inp

XyzFromXyY ==
    /\ status = "ok"
    /\ "z" \in DOMAIN inp
    /\ Len(trace) = 1
    /\ \E o \in Xyz_from_color(out) :
          /\ status' = o.st
          /\ out' = IF o.st = "ok" THEN o.val ELSE out
    /\ trace' = Append(trace, Op("Xyz::from_color", Zero(inp.ty)))
    /\ UNCHANGED inp

NextXyY == FromChannels \/ SetX \/ SetY \/ SetZ \/ XyYFromXyz \/ XyzFromXyY

SpecXyY == InitXyY /\ [][NextXyY]_vars

(***************************************************************************)
(* Bounded channels (channel/scalar.rs) and the colours made of them.  A   *)
(* channel is positive ("pos", PosNormalChannelScalar) or symmetric        *)
(* ("sym", NormalChannelScalar); its value is an integer of u8, u16 or u32 *)
(* or a float of f32 or f64.                                               *)
(***************************************************************************)
ChanTypes == {"u8", "u16", "u32", "f32", "f64"}

\* min_bound with the lower bound of a positive channel for both kinds
min_bound_Zero(kind, ty) ==
    IF ty \in IntTypes THEN IntVal(ty, Zeros(Limbs(ty))) ELSE Zero(ty)

\* PosNormalChannelScalar::min_bound(), NormalChannelScalar::min_bound()
min_bound(kind, ty) ==
    IF ty \in IntTypes THEN IntVal(ty, Zeros(Limbs(ty)))
    ELSE IF kind = "pos" THEN Zero(ty) ELSE FNeg(One(ty))

\* max_bound with half the maximum of an integer type
max_bound_Half(kind, ty) ==
    IF ty \in IntTypes THEN IntVal(ty, Shr(MaxL(Limbs(ty)), 1)) ELSE One(ty)

\* PosNormalChannelScalar::max_bound(), NormalChannelScalar::max_bound()
max_bound(kind, ty) ==
    IF ty \in IntTypes THEN IntVal(ty, MaxL(Limbs(ty))) ELSE One(ty)

\* is_normalized that tests the upper bound alone
is_normalized_Upper(kind, v) ==
    IF v.ty \in IntTypes THEN TRUE ELSE CmpF(v, max_bound(kind, v.ty)) <= 0

\* is_normalized(&self) of the two traits
is_normalized(kind, v) ==
    IF v.ty \in IntTypes THEN TRUE
    ELSE CmpF(v, min_bound(kind, v.ty)) >= 0 /\ CmpF(v, max_bound(kind, v.ty)) <= 0

\* normalize that clamps to the bounds of a positive channel in every case
normalize_Positive(kind, v) ==
    IF v.ty \in IntTypes THEN v
    ELSE IF CmpF(v, max_bound("pos", v.ty)) > 0 THEN max_bound("pos", v.ty)
    ELSE IF CmpF(v, min_bound("pos", v.ty)) < 0 THEN min_bound("pos", v.ty)
    ELSE v

\* normalize(self) of the two traits
normalize(kind, v) ==
    IF v.ty \in IntTypes THEN v
    ELSE IF CmpF(v, max_bound(kind, v.ty)) > 0 THEN max_bound(kind, v.ty)
    ELSE IF CmpF(v, min_bound(kind, v.ty)) < 0 THEN min_bound(kind, v.ty)
    ELSE v

\* the channel's invert(): min_bound + max_bound - v
invert(kind, v) ==
    IF v.ty \in IntTypes
    THEN IntVal(v.ty, AsTrunc(SubL(AddL(min_bound(kind, v.ty).num, max_bound(kind, v.ty).num),
                                   v.num), Limbs(v.ty)))
    ELSE SubF(AddF(min_bound(kind, v.ty), max_bound(kind, v.ty)), v)

\* a colour of three channels: BareYCbCr {luma, cb, cr} or Rgb
\* {red, green, blue}
Color3(tag, ch) == [tag |-> tag, ch |-> ch]

\* the kinds of its channels
Kinds(tag) == IF tag = "YCbCr" THEN <<"pos", "sym", "sym">> ELSE <<"pos", "pos", "pos">>

\* impl_color_invert!, impl_color_bounded!: channel by channel
color_invert(c) == [c EXCEPT !.ch = [i \in 1..3 |-> invert(Kinds(c.tag)[i], c.ch[i])]]

color_normalize(c) == [c EXCEPT !.ch = [i \in 1..3 |-> normalize(Kinds(c.tag)[i], c.ch[i])]]

color_is_normalized(c) == \A i \in 1..3 : is_normalized(Kinds(c.tag)[i], c.ch[i])

\* Alpha { color, alpha }
AlphaColor(color, alpha) == [color |-> color, alpha |-> alpha]

\* <Alpha<T, InnerColor> as Invert>::invert
Alpha_invert(a) == AlphaColor(color_invert(a.color), invert("pos", a.alpha))

\* <Alpha<T, InnerColor> as Bounded>::normalize, is_normalized
Alpha_normalize(a) == AlphaColor(color_normalize(a.color), normalize("pos", a.alpha))

Alpha_is_normalized(a) == color_is_normalized(a.color) /\ is_normalized("pos", a.alpha)

\* the operations on either colour
Invert(c) == IF "alpha" \in DOMAIN c THEN Alpha_invert(c) ELSE color_invert(c)

Normalize(c) == IF "alpha" \in DOMAIN c THEN Alpha_normalize(c) ELSE color_normalize(c)

IsNormalized(c) == IF "alpha" \in DOMAIN c THEN Alpha_is_normalized(c) ELSE color_is_normalized(c)

\* channel values: for an integer type 0, the maximum, 200 and the limbs
\* 55, 56, ...; for a float type -1.3, -0.2, 1/3, 1 and 1.2
ChanVals ==
    [ty \in ChanTypes |->
        IF ty \in IntTypes
        THEN {IntVal(ty, a) : a \in {Zeros(Limbs(ty)), MaxL(Limbs(ty)), Pad(<<200>>, Limbs(ty)),
                                     [i \in 1..Limbs(ty) |-> 54 + i]}}
        ELSE {Lit(ty, f[1], f[2]) : f \in {<<-13, 10>>, <<-1, 5>>, <<1, 3>>, <<1, 1>>, <<6, 5>>}}]

\* YCbCr<T> for every channel type, Rgba<T> = Alpha<T, Rgb<T>> for u8 and f32
ChanInputs ==
    UNION {{Color3("YCbCr", <<a, b, c>>) :
              a \in ChanVals[ty], b \in ChanVals[ty], c \in ChanVals[ty]} : ty \in ChanTypes}
    \cup UNION {{AlphaColor(Color3("Rgb", <<a, b, c>>), d) :
              a \in ChanVals[ty], b \in ChanVals[ty], c \in ChanVals[ty], d \in ChanVals[ty]} :
           ty \in {"u8", "f32"}}

(***************************************************************************)
(* The channel machine: a colour and the contract operations applied.      *)
(*   inp    the colour the run started from                                *)
(*   out    the colour after the operations of trace                       *)
(*   trace  the operations applied; is_normalized is recorded with its     *)
(*          result and leaves the colour as it is                          *)
(***************************************************************************)
InitChan ==
    /\ inp \in ChanInputs
    /\ out = inp
    /\ trace = <<>>
    /\ status = "ok"

IsChanRun == "ch" \in DOMAIN inp \/ "alpha" \in DOMAIN inp

DoInvert ==
    /\ IsChanRun
    /\ Len(trace) < MaxOps
    /\ out' = Invert(out)
    /\ trace' = Append(trace, Op("invert", FALSE))
    /\ UNCHANGED <<inp, status>>

DoNormalize ==
    /\ IsChanRun
    /\ Len(trace) < MaxOps
    /\ out' = Normalize(out)
    /\ trace' = Append(trace, Op("normalize", FALSE))
    /\ UNCHANGED <<inp, status>>

DoIsNormalized ==
    /\ IsChanRun
    /\ Len(trace) < MaxOps
    /\ trace' = Append(trace, Op("is_normalized", IsNormalized(out)))
    /\ UNCHANGED <<inp, out, status>>

NextChan == DoInvert \/ DoNormalize \/ DoIsNormalized

SpecChan == InitChan /\ [][NextChan]_vars

(***************************************************************************)
(* RGB -> YCbCr -> RGB under JpegModel in the arithmetic of the code: the  *)
(* matrices are f64, the channels are cast to f64, multiplied and added    *)
(* with f64 rounding and cast back.  A channel is an integer of u8 or a    *)
(* float of f32 or f64.                                                    *)
(***************************************************************************)
F64(n, d) == Lit("f64", n, d)

\* JpegModel::forward_transform(), row by row
forward_transform ==
    << <<F64(299, 1000), F64(587, 1000), F64(114, 1000)>>,
       <<F64(-168736, 1000000), F64(-331264, 1000000), F64(1, 2)>>,
       <<F64(1, 2), F64(-418688, 1000000), F64(-81312, 1000000)>> >>

\* JpegModel::inverse_transform(), row by row
inverse_transform ==
    << <<F64(1, 1), F64(0, 1), F64(1402, 1000)>>,
       <<F64(1, 1), F64(-3441, 10000), F64(-7141, 10000)>>,
       <<F64(1, 1), F64(1772, 1000), F64(0, 1)>> >>

\* StandardShift::get_shift() in the channel type
get_shift(ty) ==
    IF ty \in IntTypes
    THEN LET half == IntVal(ty, AddL(Shr(MaxL(Limbs(ty)), 1), <<1>>))
         IN  <<IntVal(ty, Zeros(Limbs(ty))), half, half>>
    ELSE <<Zero(ty), Zero(ty), Zero(ty)>>

\* num::cast::<T, f64>(v).unwrap(): exact for u8, f32 and f64
ToF64(v) == FloatVal("f64", v.neg, v.num, v.den)

\* num::cast::<f64, T>(x).unwrap(): the nearest f32, or the integer part,
\* with the outcomes of NumCastToInt outside the range of the integer type
FromF64(x, ty) ==
    IF ty = "f64" THEN Ok(x)
    ELSE IF ty = "f32" THEN Ok(RoundDyadic("f32", x.neg, x.num, -DenExp(x)))
    ELSE LET t     == Trim(Shr(x.num, DenExp(x)))
             whole == IntVal(ty, Pad(IF Len(t) > Limbs(ty) THEN MaxL(Limbs(ty)) ELSE t, Limbs(ty)))
             limit == Pow2L(8 * Limbs(ty))
         IN  IF x.neg
             THEN IF Len(t) > 1 \/ t[1] > 0 THEN {Abort}
                  ELSE {Abort} \cup Ok(IntVal(ty, Zeros(Limbs(ty))))
             ELSE IF LeqL(limit, t) THEN {Abort}
             ELSE IF Len(x.den) = 1 /\ x.den[1] = 1 THEN Ok(whole)
             ELSE IF CmpL(t, MaxL(Limbs(ty))) < 0 THEN Ok(whole)
             ELSE {Abort} \cup Ok(whole)

\* one row of the matrix times the vector, summed from left to right
RowTimes(row, f) ==
    AddF(AddF(MulF(row[1], f[1]), MulF(row[2], f[2])), MulF(row[3], f[3]))

\* the triples of the outcomes s[1], s[2], s[3]: a panic in one is a panic
Triples(s) ==
    {IF "abort" \in {a.st, b.st, c.st} THEN Abort
     ELSE [st |-> "ok", val |-> <<a.val, b.val, c.val>>] : a \in s[1], b \in s[2], c \in s[3]}

\* Matrix3::transform_vector(vec): the rows times the vector in f64, cast
\* back to the type of the vector
transform_vector(m, v) ==
    Triples([i \in 1..3 |->
               FromF64(RowTimes(m[i], <<ToF64(v[1]), ToF64(v[2]), ToF64(v[3])>>), v[i].ty)])

\* a + b in the channel type: an integer sum beyond the maximum panics in a
\* build with overflow checks and wraps in one without
AddChannel(a, b) ==
    IF a.ty \in IntTypes
    THEN LET s == Trim(AddL(a.num, b.num))
         IN  IF Len(s) > Limbs(a.ty)
             THEN {Abort} \cup Ok(IntVal(a.ty, AsTrunc(s, Limbs(a.ty))))
             ELSE Ok(IntVal(a.ty, Pad(s, Limbs(a.ty))))
    ELSE Ok(AddF(a, b))

RgbColor(ty, r, g, b) == [ty |-> ty, red |-> r, green |-> g, blue |-> b]

BareYCbCrColor(ty, y, cb, cr) == [ty |-> ty, luma |-> y, cb |-> cb, cr |-> cr]

\* the sums of the channels of t and the shift, as a YCbCr colour
AddShift(ty, t, shift) ==
    IF t.st = "abort" THEN {Abort}
    ELSE {IF o.st = "abort" THEN Abort
          ELSE [st |-> "ok", val |-> BareYCbCrColor(ty, o.val[1], o.val[2], o.val[3])] :
             o \in Triples([i \in 1..3 |-> AddChannel(t.val[i], shift[i])])}

\* BareYCbCr::from_rgb_and_model(from, &JpegModel)
from_rgb_and_model(from) ==
    UNION {AddShift(from.ty, t, get_shift(from.ty)) :
             t \in transform_vector(forward_transform, <<from.red, from.green, from.blue>>)}

\* the channels of c less the shift, in f64
SubShift(c, shift) ==
    <<SubF(ToF64(c.luma), ToF64(shift[1])), SubF(ToF64(c.cb), ToF64(shift[2])),
      SubF(ToF64(c.cr), ToF64(shift[3]))>>

\* the casts of the f64 channels of t to ty as an RGB colour, clipped or not
CastRgb(ty, t, mode) ==
    {IF o.st = "abort" THEN Abort
     ELSE [st |-> "ok",
           val |-> IF mode = "Clip"
                   THEN RgbColor(ty, normalize("pos", o.val[1]), normalize("pos", o.val[2]),
                                 normalize("pos", o.val[3]))
                   ELSE RgbColor(ty, o.val[1], o.val[2], o.val[3])] :
        o \in Triples([i \in 1..3 |-> FromF64(t.val[i], ty)])}

\* BareYCbCr::to_rgb(&self, &JpegModel, out_of_gamut_mode) in f64
to_rgb_f64(c, mode) ==
    UNION {CastRgb(c.ty, t, mode) :
             t \in transform_vector(inverse_transform, SubShift(c, get_shift(c.ty)))}

\* the channel values of the RGB inputs: for u8 0 .. GrayMax, 128 and 255,
\* for a float the multiples of 1/FloatGrid and of 1/XyGrid in [0, 1]
RgbVals ==
    [ty \in YTypes |->
        IF ty \in IntTypes
        THEN {IntVal(ty, <<v>>) : v \in (0..GrayMax) \cup {128, 255}}
        ELSE {Lit(ty, n, FloatGrid) : n \in 0..FloatGrid} \cup {Lit(ty, n, XyGrid) : n \in 0..XyGrid}]

ChannelMax(ty) == IF ty \in IntTypes THEN IntVal(ty, MaxL(Limbs(ty))) ELSE One(ty)

ChannelMin(ty) == IF ty \in IntTypes THEN IntVal(ty, Zeros(Limbs(ty))) ELSE Zero(ty)

\* the grays (v, v, v) and the three primaries of every type
RgbInputs ==
    UNION {{RgbColor(ty, v, v, v) : v \in RgbVals[ty]}
           \cup {RgbColor(ty, IF i = 1 THEN ChannelMax(ty) ELSE ChannelMin(ty),
                              IF i = 2 THEN ChannelMax(ty) ELSE ChannelMin(ty),
                              IF i = 3 THEN ChannelMax(ty) ELSE ChannelMin(ty)) : i \in 1..3} :
           ty \in YTypes}

(***************************************************************************)
(* The RGB machine: inp holds the RGB colour, out the result of the last   *)
(* conversion that trace names.                                            *)
(***************************************************************************)
InitRgb ==
    /\ inp \in RgbInputs
    /\ out = inp
    /\ trace = <<>>
    /\ status = "ok"

FromRgb ==
    /\ status = "ok"
    /\ trace = <<>>
    /\ "red" \in DOMAIN inp
    /\ \E o \in from_rgb_and_model(inp) :
          /\ status' = o.st
          /\ out' = IF o.st = "ok" THEN o.val ELSE out
    /\ trace' = <<"from_rgb">>
    /\ UNCHANGED inp

BackToRgb(mode) ==
    /\ status = "ok"
    /\ trace = <<"from_rgb">>
    /\ "red" \in DOMAIN inp
    /\ \E o \in to_rgb_f64(out, mode) :
          /\ status' = o.st
          /\ out' = IF o.st = "ok" THEN o.val ELSE out
    /\ trace' = <<"from_rgb", "to_rgb", mode>>
    /\ UNCHANGED inp

NextRgb == FromRgb \/ (\E mode \in Modes : BackToRgb(mode))

SpecRgb == InitRgb /\ [][NextRgb]_vars

(***************************************************************************)
(* Interpolation of integer channels in the arithmetic of the code: the    *)
(* position is an f64, the operands are cast to f64, and the products and  *)
(* the sum are rounded.  The positions are not dyadic, so 1 - pos and the  *)
(* products do round.                                                      *)
(***************************************************************************)
\* lerp_flat_int(left, right, pos) with P = f64
lerp_flat_int_f64(ty, left, right, pos) ==
    FromF64(AddF(MulF(ToF64(left), SubF(One("f64"), pos)), MulF(ToF64(right), pos)), ty)

Lerp64Types == {"u8", "u16", "u32"}

\* 0, 1, 29, 150 in the lowest limb, the maximum and the maximum less one
Lerp64Vals ==
    [ty \in Lerp64Types |->
        {IntVal(ty, Pad(<<v>>, Limbs(ty))) : v \in {0, 1, 29, 150}}
        \cup {IntVal(ty, MaxL(Limbs(ty))), IntVal(ty, <<254>> \o MaxL(Limbs(ty) - 1))}]

\* the multiples of 1/PosGrid and of 1/(PosGrid + 3) from just below 0 to
\* just above 1
Lerp64Positions ==
    {Lit("f64", k, PosGrid) : k \in (-1)..(PosGrid + 1)}
    \cup {Lit("f64", k, PosGrid + 3) : k \in 0..(PosGrid + 3)}

Lerp64Inputs ==
    UNION {{[lerp |-> [ty |-> ty, left |-> l, right |-> r, pos |-> p]] :
              l \in Lerp64Vals[ty], r \in Lerp64Vals[ty], p \in Lerp64Positions} :
           ty \in Lerp64Types}

(***************************************************************************)
(* The f64 lerp machine: inp holds the operands and the position, out the  *)
(* result once trace = <<"lerp">>.                                         *)
(***************************************************************************)
InitLerp64 ==
    /\ inp \in Lerp64Inputs
    /\ out = inp.lerp.left
    /\ trace = <<>>
    /\ status = "ok"

DoLerp64 ==
    /\ status = "ok"
    /\ trace = <<>>
    /\ "lerp" \in DOMAIN inp
    /\ \E o \in lerp_flat_int_f64(inp.lerp.ty, inp.lerp.left, inp.lerp.right, inp.lerp.pos) :
          /\ status' = o.st
          /\ out' = IF o.st = "ok" THEN o.val ELSE out
    /\ trace' = <<"lerp">>
    /\ UNCHANGED inp

NextLerp64 == DoLerp64

SpecLerp64 == InitLerp64 /\ [][NextLerp64]_vars

(***************************************************************************)
(* Alpha<T, InnerColor> (alpha.rs) with its contract operations and the    *)
(* flattening of colours to slices.  The inner colour is YCbCr<T>          *)
(* (ycbcr.rs) or Rgb<T>, a colour of three positive channels.              *)
(***************************************************************************)
\* lerp_flat(left, right, pos) in the arithmetic of T
lerp_flat_float(left, right, pos) ==
    AddF(MulF(left, SubF(One(left.ty), pos)), MulF(right, pos))

\* Lerp::Position of a channel type: f64 for the integers, T for a float
Position(ty) == IF ty \in IntTypes THEN "f64" ELSE ty

\* <T as Lerp>::lerp of a channel
channel_lerp(left, right, pos) ==
    IF left.ty \in IntTypes THEN lerp_flat_int_f64(left.ty, left, right, pos)
    ELSE Ok(lerp_flat_float(left, right, pos))

\* the outcomes of several channels taken together: one panic is a panic of
\* the whole operation
AllOf(os) ==
    {IF \E i \in DOMAIN f : f[i].st = "abort" THEN Abort
     ELSE [st |-> "ok", val |-> [i \in DOMAIN f |-> f[i].val]] :
        f \in {g \in [DOMAIN os -> UNION {os[i] : i \in DOMAIN os}] :
                  \A i \in DOMAIN os : g[i] \in os[i]}}

\* the outcomes o with their value replaced by wrap[o.val]
Wrapped(os, tag) ==
    {IF o.st = "abort" THEN Abort ELSE [st |-> "ok", val |-> Color3(tag, o.val)] : o \in os}

\* impl_color_lerp_square!: channel by channel
color_lerp(c, right, pos) ==
    Wrapped(AllOf([i \in 1..3 |-> channel_lerp(c.ch[i], right.ch[i], pos)]), c.tag)

\* <Alpha<T, InnerColor> as Lerp>::lerp
Alpha_lerp(a, right, pos) ==
    {IF c.st = "abort" \/ al.st = "abort" THEN Abort
     ELSE [st |-> "ok", val |-> AlphaColor(c.val, al.val)] :
        c \in color_lerp(a.color, right.color, pos),
        al \in channel_lerp(a.alpha, right.alpha, pos)}

\* the channel's clamp(min, max)
clamp(v, min, max) ==
    IF CmpF(v, max) > 0 THEN max ELSE IF CmpF(v, min) < 0 THEN min ELSE v

\* HomogeneousColor::clamp of Rgb: channel by channel
color_clamp(c, min, max) == [c EXCEPT !.ch = [i \in 1..3 |-> clamp(c.ch[i], min, max)]]

\* clamp that leaves the alpha channel as it is
Alpha_clamp_ColorOnly(a, min, max) == AlphaColor(color_clamp(a.color, min, max), a.alpha)

\* <Alpha<T, InnerColor> as HomogeneousColor>::clamp
Alpha_clamp(a, min, max) == AlphaColor(color_clamp(a.color, min, max), clamp(a.alpha, min, max))

\* Color::num_channels() of the inner colours and of Alpha
color_num_channels == 3

Alpha_num_channels == color_num_channels + 1

\* a slice &[T]
Slice(vals) == [slice |-> vals]

\* Flatten::as_slice of the inner colours, YCbCr::as_slice
color_as_slice(c) == Slice(c.ch)

\* as_slice without the alpha channel
Alpha_as_slice_NoAlpha(a) == Slice(a.color.ch)

\* impl_color_as_slice! in Alpha: the fields in their declared order
Alpha_as_slice(a) == Slice(a.color.ch \o <<a.alpha>>)

\* YCbCr::from_slice, and from_slice of Rgb: vals[0], vals[1], vals[2]
color_from_slice(tag, vals) ==
    IF Len(vals) < 3 THEN {Abort} ELSE Ok(Color3(tag, <<vals[1], vals[2], vals[3]>>))

\* from_slice that pads a short slice with its first element
Alpha_from_slice_Padded(tag, values) ==
    IF values = <<>> THEN {Abort}
    ELSE LET at(i) == IF i <= Len(values) THEN values[i] ELSE values[1]
         IN  Ok(AlphaColor(Color3(tag, <<at(1), at(2), at(3)>>), at(Alpha_num_channels)))

\* <Alpha<T, InnerColor> as Flatten>::from_slice
Alpha_from_slice(tag, values) ==
    {IF c.st = "abort" \/ Len(values) < Alpha_num_channels THEN Abort
     ELSE [st |-> "ok", val |-> AlphaColor(c.val, values[Alpha_num_channels])] :
        c \in color_from_slice(tag, values)}

AlphaTypes == {"u8", "f32"}

AlphaTags == {"Rgb", "YCbCr"}

\* 0, 100 and 255; -0.2, 1/3 and 1.2
AlphaVals ==
    [ty \in AlphaTypes |->
        IF ty = "u8" THEN {IntVal(ty, <<v>>) : v \in {0, 100, 255}}
        ELSE {Lit(ty, f[1], f[2]) : f \in {<<-1, 5>>, <<1, 3>>, <<6, 5>>}}]

AlphaColors(ty, tag) ==
    {AlphaColor(Color3(tag, <<a, b, c>>), d) :
        a \in AlphaVals[ty], b \in AlphaVals[ty], c \in AlphaVals[ty], d \in AlphaVals[ty]}

\* element i of the slices: 50 * i, or i / 8
SliceVal(ty, i) == IF ty = "u8" THEN IntVal(ty, <<(50 * i) % 256>>) ELSE Lit(ty, i, 8)

\* the slices of 0 to MaxSlice elements
Slices(ty) == {Slice([i \in 1..n |-> SliceVal(ty, i)]) : n \in 0..MaxSlice}

\* an Alpha colour, or a slice and the colour type to build from it
AlphaInputs ==
    UNION {{[self |-> a, of |-> <<"Alpha", tag>>] : a \in AlphaColors(ty, tag)} \cup
           {[self |-> s, of |-> <<"Alpha", tag>>] : s \in Slices(ty)} :
           ty \in AlphaTypes, tag \in AlphaTags}
    \cup UNION {{[self |-> s, of |-> <<"YCbCr">>] : s \in Slices(ty)} : ty \in AlphaTypes}

\* the right operands of lerp: the broadcast of 100 and (0, 255, 100, 255);
\* the broadcast of 1/3 and (-0.2, 1.2, 1/3, 1.2)
LerpRights(ty, tag) ==
    IF ty = "u8"
    THEN {AlphaColor(Color3(tag, <<IntVal(ty, <<100>>), IntVal(ty, <<100>>), IntVal(ty, <<100>>)>>),
                     IntVal(ty, <<100>>)),
          AlphaColor(Color3(tag, <<IntVal(ty, <<0>>), IntVal(ty, <<255>>), IntVal(ty, <<100>>)>>),
                     IntVal(ty, <<255>>))}
    ELSE {AlphaColor(Color3(tag, <<Lit(ty, 1, 3), Lit(ty, 1, 3), Lit(ty, 1, 3)>>), Lit(ty, 1, 3)),
          AlphaColor(Color3(tag, <<Lit(ty, -1, 5), Lit(ty, 6, 5), Lit(ty, 1, 3)>>), Lit(ty, 6, 5))}

\* the positions 0, 3/7, 1/2, 1 and 5/4
LerpPositions(ty) ==
    {Lit(Position(ty), f[1], f[2]) : f \in {<<0, 1>>, <<3, 7>>, <<1, 2>>, <<1, 1>>, <<5, 4>>}}

\* the arguments of clamp: (50, 200) and (0, 255); (0.25, 0.75) and (0, 1)
ClampArgs(ty) ==
    IF ty = "u8"
    THEN {[min |-> IntVal(ty, <<50>>), max |-> IntVal(ty, <<200>>)],
          [min |-> IntVal(ty, <<0>>), max |-> IntVal(ty, <<255>>)]}
    ELSE {[min |-> Lit(ty, 1, 4), max |-> Lit(ty, 3, 4)], [min |-> Zero(ty), max |-> One(ty)]}

(***************************************************************************)
(* The Alpha machine: one contract operation on an Alpha colour, or a      *)
(* colour flattened and rebuilt, or a colour built from a slice.           *)
(*   inp    the colour or slice the run started from, and the colour type  *)
(*   out    the colour or slice after the operations of trace              *)
(*   trace  the operations applied, each with its arguments (is_normalized *)
(*          with its result)                                               *)
(***************************************************************************)
InitAlpha ==
    /\ inp \in AlphaInputs
    /\ out = inp.self
    /\ trace = <<>>
    /\ status = "ok"

\* the run is at an Alpha colour no operation was applied to
AtAlpha == "self" \in DOMAIN inp /\ trace = <<>> /\ "alpha" \in DOMAIN out

AlphaInvert ==
    /\ AtAlpha
    /\ out' = Alpha_invert(out)
    /\ trace' = <<Op("invert", FALSE)>>
    /\ UNCHANGED <<inp, status>>

AlphaNormalize ==
    /\ AtAlpha
    /\ out' = Alpha_normalize(out)
    /\ trace' = <<Op("normalize", FALSE)>>
    /\ UNCHANGED <<inp, status>>

AlphaIsNormalized ==
    /\ AtAlpha
    /\ trace' = <<Op("is_normalized", Alpha_is_normalized(out))>>
    /\ UNCHANGED <<inp, out, status>>

AlphaLerp ==
    /\ AtAlpha
    /\ \E right \in LerpRights(out.alpha.ty, out.color.tag), pos \in LerpPositions(out.alpha.ty) :
          /\ trace' = <<Op("lerp", [right |-> right, pos |-> pos])>>
          /\ \E o \in Alpha_lerp(out, right, pos) :
                /\ status' = o.st
                /\ out' = IF o.st = "ok" THEN o.val ELSE out
    /\ UNCHANGED inp

AlphaClamp ==
    /\ AtAlpha
    /\ out.color.tag = "Rgb"
    /\ \E arg \in ClampArgs(out.alpha.ty) :
          /\ trace' = <<Op("clamp", arg)>>
          /\ out' = Alpha_clamp(out, arg.min, arg.max)
    /\ UNCHANGED <<inp, status>>

AsSlice ==
    /\ AtAlpha
    /\ out' = Alpha_as_slice(out)
    /\ trace' = <<Op("as_slice", FALSE)>>
    /\ UNCHANGED <<inp, status>>

\* from_slice of the colour type inp.of, on the slice of the input or on
\* the slice as_slice returned
FromSlice ==
    /\ "self" \in DOMAIN inp
    /\ status = "ok"
    /\ "slice" \in DOMAIN out
    /\ \E o \in IF inp.of[1] = "Alpha" THEN Alpha_from_slice(inp.of[2], out.slice)
                ELSE color_from_slice(inp.of[1], out.slice) :
          /\ status' = o.st
          /\ out' = IF o.st = "ok" THEN o.val ELSE out
    /\ trace' = Append(trace, Op("from_slice", FALSE))
    /\ UNCHANGED inp

NextAlpha ==
    \/ AlphaInvert
    \/ AlphaNormalize
    \/ AlphaIsNormalized
    \/ AlphaLerp
    \/ AlphaClamp
    \/ AsSlice
    \/ FromSlice

SpecAlpha == InitAlpha /\ [][NextAlpha]_vars

(***************************************************************************)
(* Casts between angle units (cast.rs:204-224).  An angle is [unit, val],  *)
(* val a float of type val.ty.                                             *)
(***************************************************************************)
Angle(unit, val) == [unit |-> unit, val |-> val]

AngleUnits == {"Deg", "Rad", "Turns", "ArcMinutes", "ArcSeconds"}

\* 2 pi in T: the f64 nearest to 2 pi is 7074237752028440 / 2^50
TwoPi(ty) == RoundDyadic(ty, FALSE, <<24, 45, 68, 84, 251, 33, 25>>, -50)

\* Angle::period(): the full turn in the unit
period(unit, ty) ==
    CASE unit = "Deg" -> Lit(ty, 360, 1)
      [] unit = "Rad" -> TwoPi(ty)
      [] unit = "Turns" -> One(ty)
      [] unit = "ArcMinutes" -> Lit(ty, 21600, 1)
      [] unit = "ArcSeconds" -> Lit(ty, 1296000, 1)

\* the cast of a float scalar to the float type ty: `self as f32`, `self as
\* f64`, num::cast
float_cast(v, ty) ==
    IF v.ty = ty THEN v
    ELSE IF ty = "f64" THEN ToF64(v)
    ELSE RoundDyadic("f32", v.neg, v.num, -DenExp(v))

\* the cast that multiplies by source period / target period
angle_cast_Inverted(a, unit, ty) ==
    Angle(unit, MulF(float_cast(a.val, ty),
                     DivF(float_cast(period(a.unit, a.val.ty), ty), period(unit, ty))))

\* <angle::$angle<T> as ChannelFormatCast<A>>::cast
angle_cast(a, unit, ty) ==
    Angle(unit, MulF(float_cast(a.val, ty),
                     DivF(period(unit, ty), float_cast(period(a.unit, a.val.ty), ty))))

\* the scalars 0, 1/3, 1/2, 7, 180 and -90
AngleVals(ty) ==
    {Lit(ty, f[1], f[2]) : f \in {<<0, 1>>, <<1, 3>>, <<1, 2>>, <<7, 1>>, <<180, 1>>, <<-90, 1>>}}

AngleInputs ==
    {[angle |-> Angle(u, v), to |-> [unit |-> w, ty |-> t]] :
        u \in AngleUnits, v \in UNION {AngleVals(ty) : ty \in FloatTypes},
        w \in AngleUnits, t \in FloatTypes}

(***************************************************************************)
(* The angle machine: inp holds the angle and the target unit and type,    *)
(* out the angle after the cast once trace = <<"cast">>.                   *)
(***************************************************************************)
InitAngle ==
    /\ inp \in AngleInputs
    /\ out = inp.angle
    /\ trace = <<>>
    /\ status = "ok"

DoAngleCast ==
    /\ "angle" \in DOMAIN inp
    /\ trace = <<>>
    /\ out' = angle_cast(inp.angle, inp.to.unit, inp.to.ty)
    /\ trace' = <<"cast">>
    /\ UNCHANGED <<inp, status>>

NextAngle == DoAngleCast

SpecAngle == InitAngle /\ [][NextAngle]_vars

(***************************************************************************)
(* Lab (lab.rs).  A Lab colour is [ty, L, a, b], every channel a float of  *)
(* type ty; the XYZ colours and white points are those of XyzColor.        *)
(***************************************************************************)
\* the largest r' with r'^3 <= n among r plus a sum of 2^b, 2^(b-1), ..., 1;
\* c is r + 2^b
RECURSIVE CubeRootFrom(_, _, _)
CubeRootNext(n, r, c, b) ==
    IF LeqL(MulL(c, MulL(c, c)), n) THEN CubeRootFrom(n, c, b - 1) ELSE CubeRootFrom(n, r, b - 1)

CubeRootFrom(n, r, b) == IF b < 0 THEN r ELSE CubeRootNext(n, r, Trim(AddL(r, Pow2L(b))), b)

\* libm's cbrt is within CbrtUlps units in the last place of the cube root
CbrtUlps == 3

\* the floats within CbrtUlps ulps of the cube root of n / 2^(3 s), r the
\* integer cube root of n: (r - 2) / 2^s ... (r + 3) / 2^s
CubeRootPick(ty, neg, r, s) ==
    {RoundDyadic(ty, neg, Trim(SubL(AddL(r, <<k>>), <<CbrtUlps - 1>>)), -s) :
        k \in 0..(2 * CbrtUlps - 1)}

CubeRootAt(ty, neg, n, s) ==
    CubeRootPick(ty, neg, CubeRootFrom(n, <<0>>, Mantissa(ty) - 1), s)

\* the exponent s that gives the cube root of num * 2^(3 s - k) exactly
\* Mantissa(ty) bits
CubeRootShift(ty, num, k) == (3 * Mantissa(ty) - BitLen(num) + k) \div 3

\* T::cbrt of libm: 0 for 0, 1 for 1, else a float within CbrtUlps ulps of
\* the cube root (which one is the libm's choice)
cbrt(x) ==
    IF IsZeroL(x.num) \/ x = One(x.ty) THEN {x}
    ELSE CubeRootAt(x.ty, x.neg,
                    Trim(Shl(x.num, 3 * CubeRootShift(x.ty, x.num, DenExp(x)) - DenExp(x))),
                    CubeRootShift(x.ty, x.num, DenExp(x)))

LabTypes == {"f32", "f64"}

\* the constants of lab.rs in each type: the f64 literal, cast to T
LabConsts ==
    [ty \in LabTypes |->
        [epsilon |-> float_cast(RoundQuot("f64", FALSE, <<239, 160, 76, 88, 229, 118, 31>>,
                                          <<0, 0, 100, 167, 179, 182, 224, 13>>, 0), ty),
         kappa   |-> float_cast(RoundQuot("f64", FALSE, <<19, 118, 140, 38, 55, 8>>,
                                          <<0, 228, 11, 84, 2>>, 0), ty),
         num     |-> [n \in {16, 116, 200, 500} |-> Lit(ty, n, 1)]]]

\* Lab::epsilon(): num::cast(0.008856451679035631)
epsilon(ty) == LabConsts[ty].epsilon

\* Lab::kappa(): num::cast(903.2962962963)
kappa(ty) == LabConsts[ty].kappa

\* num::cast::<_, T>(n).unwrap() for 16.0, 116.0, 200.0 and 500.0
NumCast(ty, n) == LabConsts[ty].num[n]

\* Lab { L, a, b }
LabColor(ty, L, a, b) == [ty |-> ty, L |-> L, a |-> a, b |-> b]

\* lab_f with the threshold on the wrong side: the cube root at or below
\* epsilon
lab_f_Swapped(channel) ==
    IF CmpF(channel, epsilon(channel.ty)) <= 0 /\ ~IsZeroL(channel.num) THEN cbrt(channel)
    ELSE {DivF(AddF(MulF(kappa(channel.ty), channel), NumCast(channel.ty, 16)),
               NumCast(channel.ty, 116))}

\* Lab::lab_f
lab_f(channel) ==
    IF CmpF(channel, epsilon(channel.ty)) > 0 THEN cbrt(channel)
    ELSE {DivF(AddF(MulF(kappa(channel.ty), channel), NumCast(channel.ty, 16)),
               NumCast(channel.ty, 116))}

\* L, a and b of from_xyz from lab_f(x), lab_f(y), lab_f(z)
LabOf(ty, fx, fy, fz) ==
    LabColor(ty, SubF(MulF(NumCast(ty, 116), fy), NumCast(ty, 16)),
                 MulF(NumCast(ty, 500), SubF(fx, fy)),
                 MulF(NumCast(ty, 200), SubF(fy, fz)))

\* the results of lab_f for x, y and z: cbrt is a function, so equal
\* arguments have equal results
LabChoices(tx, ty, tz) ==
    {f \in lab_f(tx) \X lab_f(ty) \X lab_f(tz) :
        /\ tx = ty => f[1] = f[2]
        /\ ty = tz => f[2] = f[3]
        /\ tx = tz => f[1] = f[3]}

\* Lab::from_xyz
Lab_from_xyz(from, wp) ==
    {LabOf(from.ty, f[1], f[2], f[3]) :
        f \in LabChoices(DivF(from.x, wp.x), DivF(from.y, wp.y), DivF(from.z, wp.z))}

\* f * f * f
Cube(f) == MulF(MulF(f, f), f)

\* Lab::calc_xz
calc_xz(f) ==
    IF CmpF(Cube(f), epsilon(f.ty)) > 0 THEN Cube(f)
    ELSE DivF(SubF(MulF(NumCast(f.ty, 116), f), NumCast(f.ty, 16)), kappa(f.ty))

\* Lab::inv_f_y, inv_f_x, inv_f_z
inv_f_y(L) == DivF(AddF(L, NumCast(L.ty, 16)), NumCast(L.ty, 116))

inv_f_x(a, fy) == AddF(DivF(a, NumCast(a.ty, 500)), fy)

inv_f_z(b, fy) == SubF(fy, DivF(b, NumCast(b.ty, 200)))

\* Lab::calc_y
calc_y(L) ==
    IF CmpF(L, MulF(kappa(L.ty), epsilon(L.ty))) > 0 THEN Cube(inv_f_y(L))
    ELSE DivF(L, kappa(L.ty))

\* Lab::to_xyz
Lab_to_xyz(c, wp) ==
    XyzColor(c.ty, MulF(calc_xz(inv_f_x(c.a, inv_f_y(c.L))), wp.x),
                   MulF(calc_y(c.L), wp.y),
                   MulF(calc_xz(inv_f_z(c.b, inv_f_y(c.L))), wp.z))

\* the spacing of the floats of the type at epsilon
EpsUlp(ty) == RoundDyadic(ty, FALSE, <<1>>, IF ty = "f32" THEN -30 ELSE -59)

\* channel values: 0, 1/200, the float next above epsilon and 3/10
LabVals(ty) ==
    {Zero(ty), Lit(ty, 1, 200), AddF(epsilon(ty), EpsUlp(ty)), Lit(ty, 3, 10)}

\* the white points E and D65
WhitePoints(ty) ==
    {XyzColor(ty, One(ty), One(ty), One(ty)),
     XyzColor(ty, Lit(ty, 95047, 100000), One(ty), Lit(ty, 108883, 100000))}

\* an XYZ colour, or the white point itself, and the white point
LabInputs ==
    UNION {{[from |-> c, wp |-> w] :
              c \in {XyzColor(ty, x, y, zz) : x \in LabVals(ty), y \in LabVals(ty), zz \in LabVals(ty)}
                     \cup WhitePoints(ty),
              w \in WhitePoints(ty)} : ty \in LabTypes}

(***************************************************************************)
(* The Lab machine: an XYZ colour converted to Lab and back under one      *)
(* white point.                                                            *)
(*   inp    the XYZ colour and the white point                             *)
(*   out    the Lab colour after from_xyz, the XYZ colour after to_xyz     *)
(*   trace  the conversions applied; to_xyz with the Lab colour it was     *)
(*          applied to                                                     *)
(***************************************************************************)
InitLab ==
    /\ inp \in LabInputs
    /\ out = inp.from
    /\ trace = <<>>
    /\ status = "ok"

LabFromXyz ==
    /\ "wp" \in DOMAIN inp
    /\ trace = <<>>
    /\ out' \in Lab_from_xyz(inp.from, inp.wp)
    /\ trace' = <<Op("from_xyz", FALSE)>>
    /\ UNCHANGED <<inp, status>>

LabToXyz ==
    /\ "wp" \in DOMAIN inp
    /\ Len(trace) = 1
    /\ out' = Lab_to_xyz(out, inp.wp)
    /\ trace' = Append(trace, Op("to_xyz", out))
    /\ UNCHANGED <<inp, status>>

NextLab == LabFromXyz \/ LabToXyz

SpecLab == InitLab /\ [][NextLab]_vars

Init == InitCast \/ InitLerp \/ InitYCbCr \/ InitXyY \/ InitChan \/ InitRgb \/ InitLerp64 \/ InitAlpha \/ InitAngle \/ InitLab

Next == NextCast \/ NextLerp \/ NextYCbCr \/ NextXyY \/ NextChan \/ NextRgb \/ NextLerp64 \/ NextAlpha \/ NextAngle \/ NextLab

Spec == Init /\ [][Next]_vars

(***************************************************************************)
(* Properties of the casts, over the runs of SpecCast.                     *)
(***************************************************************************)
OneCast(from, to) == trace = <<from, to>>

\* the n most significant limbs of a
TopLimbs(a, n) == SubSeq(a, Len(a) - n + 1, Len(a))

\* the limbs of a repeated up to n limbs
Replicated(a, n) == [j \in 1..n |-> a[((j - 1) % Len(a)) + 1]]

F(n, d) == FloatVal("f64", FALSE, ToLimbs(n), ToLimbs(d))

InUnit(x) == ~x.neg /\ LeqL(x.num, x.den)

IsOne(x) == ~x.neg /\ CmpL(x.num, x.den) = 0

NarrowPairs ==
    {<<"u16", "u8">>, <<"u32", "u8">>, <<"u32", "u16">>, <<"u64", "u8">>, <<"u64", "u16">>}

WidenPairs ==
    {<<"u8", "u16">>, <<"u8", "u32">>, <<"u8", "u64">>,
     <<"u16", "u32">>, <<"u16", "u64">>, <<"u32", "u64">>}

\* C3: a narrowing cast to 8 or 16 bits returns the most significant bits of
\* its input (u16->u8 = v >> 8, u32->u8 = v >> 24, u32->u16 = v >> 16,
\* u64->u8 = v >> 56, u64->u16 = v >> 48), which fit the target.
C3_NarrowKeepsTopBits ==
    \A p \in NarrowPairs :
        OneCast(p[1], p[2]) =>
            /\ status = "ok"
            /\ out = IntVal(p[2], TopLimbs(inp.num, Limbs(p[2])))

C3_Witness ==
    /\ OneCast("u64", "u16")
    /\ inp.num = <<255, 255, 255, 255, 255, 255, 254, 255>>
    /\ out.num = <<254, 255>>

\* C4: the u64 -> u32 cast returns the 32 most significant bits of its
\* input, floor(v / 2^32).
C4_U64ToU32KeepsTopBits ==
    OneCast("u64", "u32") =>
        /\ status = "ok"
        /\ out = IntVal("u32", TopLimbs(inp.num, 4))

\* C5: a widening cast returns the source bit pattern replicated to fill the
\* target (the product by 0x0101, 0x01010101, ...), without overflow; 0 maps
\* to 0 and the source maximum to the target maximum.
C5_WidenReplicates ==
    \A p \in WidenPairs :
        OneCast(p[1], p[2]) =>
            /\ status = "ok"
            /\ out = IntVal(p[2], Replicated(inp.num, Limbs(p[2])))

C5_Witness ==
    /\ OneCast("u8", "u16")
    /\ inp.num = <<255>>
    /\ out.num = <<255, 255>>
    /\ status = "ok"

ExactPairs == {<<"f32", "u16">>, <<"f64", "u16">>, <<"f64", "u32">>}

C7_RoundTripWithinOne ==
    \A fty \in FloatTypes :
        trace = <<"u8", fty, "u8">> =>
            /\ status = "ok"
            /\ out.num[1] - inp.num[1] \in {-1, 0, 1}

C7_Witness ==
    /\ trace = <<"u8", "f32", "u8">>
    /\ inp.num = <<254>>
    /\ out.num = <<254>>

WellFormed(v) ==
    IF v.ty \in IntTypes
    THEN /\ Len(v.num) = Limbs(v.ty)
         /\ \A i \in 1..Len(v.num) : v.num[i] \in 0..255
         /\ ~v.neg
    ELSE ~IsZeroL(v.den)

\* C8: cast never aborts and returns a value in the target's range, for
\* every ordered pair of representations and every input: an integer of the
\* target's width, a float in [0, 1] from an integer; float inputs below 0
\* or above 1 included.
C8_CastTotal ==
    /\ status = "ok"
    /\ out.ty = trace[Len(trace)]
    /\ WellFormed(out)
    /\ (Len(trace) > 1 /\ trace[Len(trace) - 1] \in IntTypes /\ out.ty \in FloatTypes)
          => InUnit(out)

C8_Witness ==
    /\ OneCast("f32", "u8")
    /\ inp.neg
    /\ out = IntVal("u8", <<0>>)
    /\ status = "ok"

(***************************************************************************)
(* Properties of YCbCr -> RGB, over the runs of SpecYCbCr.                 *)
(***************************************************************************)
\* the exact result of the inverse transform, before the cast to the channel
ExactRgb(c) ==
    LET s == Shift(c.ty)
    IN  TransformVector(InverseTransform, <<QSub(c.luma, s[1]), QSub(c.cb, s[2]), QSub(c.cr, s[3])>>)

ChanMax(ty) == IF ty \in IntTypes THEN Q(MaxOf(ty), 1) ELSE Q(1, 1)

\* x clamped into [0, max], an integer channel truncated toward zero first
Clamped(ty, x) ==
    LET v == IF ty \in IntTypes THEN Q(TruncDiv(x.n, x.d), 1) ELSE x
    IN  IF v.n < 0 THEN Q(0, 1) ELSE IF QLeq(ChanMax(ty), v) THEN ChanMax(ty) ELSE v

InGamut(ty, x) == x.n >= 0 /\ QLeq(x, ChanMax(ty))

\* C1: to_rgb with OutOfGamutMode::Clip never aborts and returns, in every
\* channel representation, the Preserve result clamped into the channel's
\* bounds.
C1_ClipClampsEveryChannel ==
    trace = <<"to_rgb", "Clip">> =>
        /\ status = "ok"
        /\ out.some
        /\ \A i \in 1..3 : QEq(out.rgb[i], Clamped(inp.ty, ExactRgb(inp)[i]))

\* C2: try_from_color returns Some(rgb) exactly when the Preserve-mode
\* inverse transform has every channel within bounds, and None otherwise,
\* without aborting, in every channel representation.
C2_TryIsSomeIffInGamut ==
    trace = <<"try_from_color">> =>
        /\ status = "ok"
        /\ out.some <=> \A i \in 1..3 : InGamut(inp.ty, ExactRgb(inp)[i])

(***************************************************************************)
(* Properties of lerp, over the runs of SpecLerp.                          *)
(***************************************************************************)
\* C9: lerp does not clamp its position and, on integer channels, returns a
\* value for every position, those below 0 and above 1 included; it never
\* aborts.
C9_IntLerpNeverAborts ==
    (trace = <<"lerp">> /\ inp.ty \in IntTypes) => status = "ok"

XyRun == "Y" \in DOMAIN inp /\ trace # <<>> /\ status = "ok"

LastOp == trace[Len(trace)]

\* C11: in every state reached from a successful from_channels by setters
\* with arguments in [0, 1], x >= 0, y >= 0 and x + y <= 1, that is
\* z() >= 0.
C11_ChromaticityInvariant ==
    XyRun =>
        /\ CmpF(out.x, Zero(out.ty)) >= 0
        /\ CmpF(out.y, Zero(out.ty)) >= 0
        /\ CmpF(AddF(out.x, out.y), One(out.ty)) <= 0
        /\ CmpF(z(out), Zero(out.ty)) >= 0

\* the tolerance of the comparisons, 1e-6
TolOf == [ty \in XyTypes |-> Lit(ty, 1, 1000000)]

AbsF(x) == FloatVal(x.ty, FALSE, x.num, x.den)

\* a and b differ by 1e-6 at most
Near(a, b) == CmpF(AbsF(SubF(a, b)), TolOf[a.ty]) <= 0

\* the last operation was a setter that returned: inp is the colour before
\* it, out the colour after it, LastOp.val its argument
AfterSetter == XyRun /\ Len(trace) >= 2

SumXy(c) == AddF(c.x, c.y)

\* C12 as stated: after any channel setter with an argument in [0, 1],
\* x + y is within float epsilon of the value it had before the call.
C12_SumPreserved == AfterSetter => Near(SumXy(out), SumXy(inp))

\* C12, amended: a setter does not preserve x + y.  After set_z(v) the sum
\* is 1 - v within 1e-6, whatever it was before; after set_x(v) or set_y(v)
\* the target channel is exactly v and the sum is at least v.
C12_SumFollowsSetter ==
    AfterSetter =>
        /\ LastOp.op = "set_z" => Near(SumXy(out), SubF(One(out.ty), LastOp.val))
        /\ LastOp.op = "set_x" => out.x = LastOp.val /\ CmpF(SumXy(out), LastOp.val) >= 0
        /\ LastOp.op = "set_y" => out.y = LastOp.val /\ CmpF(SumXy(out), LastOp.val) >= 0

C12_Witness ==
    /\ AfterSetter
    /\ LastOp.op = "set_z"
    /\ ~Near(SumXy(out), SumXy(inp))
    /\ Near(SumXy(out), SubF(One(out.ty), LastOp.val))

\* C13: from_channels (and from_tuple, which passes its tuple on) panics
\* exactly when x < 0 or y < 0 or x + y > 1, and otherwise returns the
\* colour holding exactly (x, y, Y); Y is not constrained.
C13_FromChannelsAbortsIff ==
    ("Y" \in DOMAIN inp /\ Len(trace) = 1) =>
        LET bad == \/ CmpF(inp.x, Zero(inp.ty)) < 0
                   \/ CmpF(inp.y, Zero(inp.ty)) < 0
                   \/ CmpF(SumXy(inp), One(inp.ty)) > 0
        IN  /\ status = "abort" <=> bad
            /\ status = "ok" => out = inp

C13_Witness ==
    /\ "Y" \in DOMAIN inp
    /\ Len(trace) = 1
    /\ status = "abort"
    /\ CmpF(inp.y, Zero(inp.ty)) < 0
    /\ CmpF(SumXy(inp), Zero(inp.ty)) >= 0
    /\ CmpF(SumXy(inp), One(inp.ty)) <= 0

\* the target channel t of the last setter and the other two, a and b, in
\* the colour c
Chan(c, name) == CASE name = "x" -> c.x [] name = "y" -> c.y [] name = "z" -> z(c)

\* the setter of channel t leaves a and b in the ratio they had, summing to
\* 1 - v; a and b that summed to zero get (1 - v) / 2 each
Rescaled(t, a, b) ==
    LET rem == SubF(One(out.ty), LastOp.val)
    IN  /\ Near(Chan(out, t), LastOp.val)
        /\ Near(AddF(Chan(out, a), Chan(out, b)), rem)
        /\ IF CmpF(AddF(Chan(inp, a), Chan(inp, b)), Zero(out.ty)) > 0
           THEN Near(MulF(Chan(out, a), Chan(inp, b)), MulF(Chan(inp, a), Chan(out, b)))
           ELSE /\ Near(Chan(out, a), MulF(rem, OneHalf(out.ty)))
                /\ Near(Chan(out, b), MulF(rem, OneHalf(out.ty)))

\* C14: set_x(v) with 0 <= v <= 1 sets x = v and rescales the other two
\* chromaticities in proportion: y' : z' = y : z and y' + z' = 1 - v when
\* y + z > 0, y' = z' = (1 - v) / 2 when y + z = 0; set_y and set_z do the
\* same on (x, z) and (x, y); no setter changes Y.  Equalities of computed
\* floats are within 1e-6; the stored target and Y are exact.
C14_SetterRescales ==
    AfterSetter =>
        /\ out.Y = inp.Y
        /\ LastOp.op = "set_x" => out.x = LastOp.val /\ Rescaled("x", "y", "z")
        /\ LastOp.op = "set_y" => out.y = LastOp.val /\ Rescaled("y", "x", "z")
        /\ LastOp.op = "set_z" => Rescaled("z", "x", "y")

C14_Witness ==
    /\ AfterSetter
    /\ LastOp.op = "set_x"
    /\ CmpF(inp.y, Zero(inp.ty)) > 0
    /\ CmpF(z(inp), Zero(inp.ty)) > 0
    /\ CmpF(out.y, inp.y) < 0
    /\ CmpF(out.y, Zero(inp.ty)) > 0

\* an XYZ colour without a negative channel, and a conversion of it done
NonNegXyz ==
    /\ "z" \in DOMAIN inp
    /\ trace # <<>>
    /\ CmpF(inp.x, Zero(inp.ty)) >= 0
    /\ CmpF(inp.y, Zero(inp.ty)) >= 0
    /\ CmpF(inp.z, Zero(inp.ty)) >= 0

\* C15: for every XYZ colour c with X, Y, Z >= 0, XyY::from_color(&c) is
\* x = X / (X + Y + Z), y = Y / (X + Y + Z), Y = Y ((0, 0, 0) for the
\* all-zero colour), and Xyz::from_color of it reproduces c within 1e-6.
C15_XyzRoundTrip ==
    NonNegXyz =>
        LET sum == AddF(AddF(inp.x, inp.y), inp.z)
        IN  /\ status = "ok"
            /\ Len(trace) = 1 =>
                  /\ Near(MulF(out.x, sum), inp.x)
                  /\ Near(MulF(out.y, sum), inp.y)
                  /\ out.Y = inp.y
            /\ Len(trace) = 2 =>
                  /\ Near(out.x, inp.x)
                  /\ Near(out.y, inp.y)
                  /\ Near(out.z, inp.z)


(***************************************************************************)
(* Properties of the bounded channels, over the runs of SpecChan.          *)
(***************************************************************************)
\* the channels of a colour, the alpha channel last, and their kinds
Channels(c) == IF "alpha" \in DOMAIN c THEN c.color.ch \o <<c.alpha>> ELSE c.ch

KindsOf(c) == IF "alpha" \in DOMAIN c THEN Kinds(c.color.tag) \o <<"pos">> ELSE Kinds(c.tag)

OpsAre(names) ==
    /\ "ch" \in DOMAIN inp \/ "alpha" \in DOMAIN inp
    /\ Len(trace) = Len(names)
    /\ \A i \in 1..Len(names) : trace[i].op = names[i]

\* v and w add up to s
AddsUpTo(v, w, s) ==
    IF v.ty \in IntTypes THEN Trim(AddL(v.num, w.num)) = Trim(s.num)
    ELSE Near(AddF(v, w), s)

\* C16: invert(v) = min_bound + max_bound - v on a bounded channel: 255 - v
\* (the maximum minus v) for an integer channel, positive or chroma, 1 - v
\* for a positive float, -v for a symmetric float; inverting twice returns
\* an integer-channel colour exactly (Rgba<u8>, YCbCr<u8>) and a float one
\* within 1e-6.
C16_InvertInvolution ==
    /\ OpsAre(<<"invert">>) =>
          \A i \in DOMAIN Channels(inp) :
              LET v == Channels(inp)[i]
                  w == Channels(out)[i]
              IN  IF v.ty \in IntTypes THEN AddsUpTo(v, w, IntVal(v.ty, MaxL(Limbs(v.ty))))
                  ELSE IF KindsOf(inp)[i] = "pos" THEN AddsUpTo(v, w, Lit(v.ty, 1, 1))
                  ELSE w = FNeg(v)
    /\ OpsAre(<<"invert", "invert">>) =>
          \A i \in DOMAIN Channels(inp) :
              LET v == Channels(inp)[i]
                  w == Channels(out)[i]
              IN  IF v.ty \in IntTypes THEN w = v ELSE Near(w, v)

C16_Witness ==
    /\ OpsAre(<<"invert", "invert">>)
    /\ "alpha" \in DOMAIN inp
    /\ inp.alpha = IntVal("u8", <<200>>)
    /\ inp.color.ch[1] = IntVal("u8", <<55>>)
    /\ out = inp

\* v within the bounds of its kind: [0, 1] for a positive float, [-1, 1] for
\* a symmetric one, every value of an integer type
InBounds(kind, v) ==
    \/ v.ty \in IntTypes
    \/ /\ CmpF(v, Lit(v.ty, IF kind = "pos" THEN 0 ELSE -1, 1)) >= 0
       /\ CmpF(v, Lit(v.ty, 1, 1)) <= 0

\* w is v clamped to the bounds of its kind
ClampOf(kind, v, w) ==
    IF InBounds(kind, v) THEN w = v
    ELSE IF CmpF(v, Lit(v.ty, 1, 1)) > 0 THEN w = Lit(v.ty, 1, 1)
    ELSE w = Lit(v.ty, IF kind = "pos" THEN 0 ELSE -1, 1)

\* C17: normalize clamps each channel independently (a positive float above
\* 1 to 1 and below 0 to 0, a symmetric float above 1 to 1 and below -1 to
\* -1, values in range unchanged); it is idempotent, and its result is
\* normalized: YCbCr(-0.2, -1.3, 1.2) becomes (0.0, -1.0, 1.0).
C17_NormalizeClamps ==
    /\ (OpsAre(<<"normalize">>) \/ OpsAre(<<"normalize", "normalize">>)) =>
          \A i \in DOMAIN Channels(inp) :
              ClampOf(KindsOf(inp)[i], Channels(inp)[i], Channels(out)[i])
    /\ OpsAre(<<"normalize", "is_normalized">>) => LastOp.val

C17_Witness ==
    /\ OpsAre(<<"normalize", "normalize">>)
    /\ inp = Color3("YCbCr", <<Lit("f64", -1, 5), Lit("f64", -13, 10), Lit("f64", 6, 5)>>)
    /\ out = Color3("YCbCr", <<Lit("f64", 0, 1), Lit("f64", -1, 1), Lit("f64", 1, 1)>>)

\* C18: is_normalized(v) holds iff min_bound <= v <= max_bound (0..1 for a
\* positive float, -1..1 for a symmetric one); for the integer channels u8,
\* u16, u32 it holds for every value and normalize is the identity; a colour
\* (YCbCr, Alpha) is normalized iff every channel of it is.
C18_NormalizedIffInBounds ==
    /\ OpsAre(<<"is_normalized">>) =>
          (LastOp.val <=> \A i \in DOMAIN Channels(inp) : InBounds(KindsOf(inp)[i], Channels(inp)[i]))
    /\ (OpsAre(<<"normalize">>) /\ Channels(inp)[1].ty \in IntTypes) => out = inp

C18_Witness ==
    /\ OpsAre(<<"is_normalized">>)
    /\ "alpha" \in DOMAIN inp
    /\ inp.alpha = Lit("f32", 6, 5)
    /\ inp.color.ch = <<Lit("f32", 1, 3), Lit("f32", 1, 1), Lit("f32", 1, 3)>>
    /\ ~LastOp.val

(***************************************************************************)
(* Properties of RGB -> YCbCr -> RGB, over the runs of SpecRgb.            *)
(***************************************************************************)
RgbRun == "red" \in DOMAIN inp

IsGray(c) == c.red = c.green /\ c.green = c.blue

\* a and b are equal for an integer type, within 1e-6 for a float type
SameChannel(a, b) == IF a.ty \in IntTypes THEN a = b ELSE Near(a, b)

\* C19: under JpegModel a gray RGB (v, v, v) converts to the YCbCr with luma
\* v and both chroma channels equal to the shift, and that YCbCr converts
\* back to (v, v, v): exactly for u8, within 1e-6 for a float.
C19_GrayRoundTrip ==
    (RgbRun /\ IsGray(inp) /\ trace # <<>>) =>
        /\ status = "ok"
        /\ Len(trace) = 1 =>
              /\ SameChannel(out.luma, inp.red)
              /\ SameChannel(out.cb, get_shift(inp.ty)[2])
              /\ SameChannel(out.cr, get_shift(inp.ty)[3])
        /\ (Len(trace) > 1 /\ trace[3] = "Preserve") =>
              /\ SameChannel(out.red, inp.red)
              /\ SameChannel(out.green, inp.green)
              /\ SameChannel(out.blue, inp.blue)

\* entry (i, j) of inverse_transform() x forward_transform(), in f64
InverseTimesForward ==
    [i \in 1..3 |-> [j \in 1..3 |->
        AddF(AddF(MulF(inverse_transform[i][1], forward_transform[1][j]),
                  MulF(inverse_transform[i][2], forward_transform[2][j])),
             MulF(inverse_transform[i][3], forward_transform[3][j]))]]

Identity == [i \in 1..3 |-> [j \in 1..3 |-> IF i = j THEN F64(1, 1) ELSE F64(0, 1)]]

\* C20: every entry of the product inverse_transform() x forward_transform()
\* of JpegModel, the matrices that the conversions of an RGB run apply, is
\* within 1e-6 of the entry of the 3x3 identity.
C20_InverseTimesForwardIsIdentity ==
    RgbRun => \A i \in 1..3 : \A j \in 1..3 : Near(InverseTimesForward[i][j], Identity[i][j])

LabRun == "wp" \in DOMAIN inp

\* the Lab colour of the run: out after from_xyz, the colour to_xyz was
\* applied to after it
LabOfRun == IF Len(trace) = 1 THEN out ELSE trace[2].val

\* a and b differ by 1e-4 at most
Within1e4(a, b) == CmpF(AbsF(SubF(a, b)), Lit(a.ty, 1, 10000)) <= 0

\* the forward transform took its linear branch for the channel value v
\* under the white point component w
ForwardLinear(v, w) == CmpF(DivF(v, w), epsilon(v.ty)) <= 0

\* the inverse transform took its linear branch for Y, and for X or Z with
\* the f value f
InverseLinearY(c) == CmpF(c.L, MulF(kappa(c.ty), epsilon(c.ty))) <= 0

InverseLinearXZ(f) == CmpF(Cube(f), epsilon(f.ty)) <= 0

\* C21: for every XYZ colour with non-negative channels and every white
\* point with positive components, Lab::from_xyz followed by to_xyz under
\* the same white point returns the original XYZ within 1e-4, and the
\* inverse takes its linear branch (L <= kappa * epsilon for Y, f^3 <=
\* epsilon for X and Z) exactly when the forward transform took its linear
\* branch (t <= epsilon) for that channel.
C21_LabRoundTrip ==
    (LabRun /\ Len(trace) = 2) =>
        /\ Within1e4(out.x, inp.from.x)
        /\ Within1e4(out.y, inp.from.y)
        /\ Within1e4(out.z, inp.from.z)
        /\ InverseLinearY(LabOfRun) <=> ForwardLinear(inp.from.y, inp.wp.y)
        /\ InverseLinearXZ(inv_f_x(LabOfRun.a, inv_f_y(LabOfRun.L)))
              <=> ForwardLinear(inp.from.x, inp.wp.x)
        /\ InverseLinearXZ(inv_f_z(LabOfRun.b, inv_f_y(LabOfRun.L)))
              <=> ForwardLinear(inp.from.z, inp.wp.z)

\* the round trip alone
LabRoundTripNear ==
    (LabRun /\ Len(trace) = 2) =>
        /\ Within1e4(out.x, inp.from.x)
        /\ Within1e4(out.y, inp.from.y)
        /\ Within1e4(out.z, inp.from.z)

\* the Y branch disagrees
LabYBranchDiffers ==
    /\ LabRun /\ Len(trace) = 2
    /\ ~(InverseLinearY(LabOfRun) <=> ForwardLinear(inp.from.y, inp.wp.y))

\* a and b differ by at most 1e-6 of b, compared in f64
RelNear(a, b) ==
    CmpF(AbsF(SubF(ToF64(a), ToF64(b))), MulF(Lit("f64", 1, 1000000), AbsF(ToF64(b)))) <= 0

\* a and b differ by 1e-5 at most
Within1e5(a, b) == CmpF(AbsF(SubF(a, b)), Lit(a.ty, 1, 100000)) <= 0

\* f is f(t) as the claim states it, within 1e-5: the cube root of t when
\* t > epsilon (f^3 is t), else (kappa * t + 16) / 116
IsLabF(f, t) ==
    IF CmpF(t, epsilon(t.ty)) > 0 THEN Within1e5(Cube(f), t)
    ELSE Within1e5(f, DivF(AddF(MulF(kappa(t.ty), t), NumCast(t.ty, 16)), NumCast(t.ty, 116)))

\* L = 116 fy - 16, a = 500 (fx - fy) and b = 200 (fy - fz) solved for fy,
\* fx and fz
FyOf(c) == DivF(AddF(c.L, NumCast(c.ty, 16)), NumCast(c.ty, 116))

FxOf(c) == AddF(DivF(c.a, NumCast(c.ty, 500)), FyOf(c))

FzOf(c) == SubF(FyOf(c), DivF(c.b, NumCast(c.ty, 200)))

\* C22: Lab::from_xyz computes L = 116 f(Y/Yw) - 16, a = 500 (f(X/Xw) -
\* f(Y/Yw)), b = 200 (f(Y/Yw) - f(Z/Zw)) with f(t) = cbrt(t) if t >
\* 0.008856451679035631 and (903.2962962963 t + 16) / 116 otherwise; hence
\* from_xyz(wp, wp) = Lab(100, 0, 0) and from_xyz((0, 0, 0), wp) =
\* Lab(0, 0, 0) for every white point wp.
C22_LabFromXyz ==
    (LabRun /\ Len(trace) = 1) =>
        /\ IsLabF(FyOf(out), DivF(inp.from.y, inp.wp.y))
        /\ IsLabF(FxOf(out), DivF(inp.from.x, inp.wp.x))
        /\ IsLabF(FzOf(out), DivF(inp.from.z, inp.wp.z))
        /\ inp.from = inp.wp =>
              out = LabColor(out.ty, Lit(out.ty, 100, 1), Zero(out.ty), Zero(out.ty))
        /\ (inp.from.x = Zero(out.ty) /\ inp.from.y = Zero(out.ty) /\ inp.from.z = Zero(out.ty)) =>
              out = LabColor(out.ty, Zero(out.ty), Zero(out.ty), Zero(out.ty))

C22_Witness ==
    /\ LabRun /\ Len(trace) = 1
    /\ inp.wp.x = Lit("f64", 95047, 100000)
    /\ inp.from = inp.wp
    /\ out = LabColor("f64", Lit("f64", 100, 1), Zero("f64"), Zero("f64"))

\* the run started from an Alpha colour and applied the operations named
AlphaOps(names) ==
    /\ "self" \in DOMAIN inp
    /\ "alpha" \in DOMAIN inp.self
    /\ Len(trace) = Len(names)
    /\ \A i \in 1..Len(names) : trace[i].op = names[i]

\* C23: for an Alpha-wrapped colour num_channels() is the inner colour's
\* num_channels() + 1, as_slice() yields the inner colour's channels in
\* declared order followed by alpha as the last element, and
\* from_slice(as_slice(c)) = c.
C23_AlphaFlatten ==
    /\ AlphaOps(<<"as_slice">>) =>
          /\ Alpha_num_channels = color_num_channels + 1
          /\ Len(out.slice) = Alpha_num_channels
          /\ \A i \in 1..color_num_channels : out.slice[i] = inp.self.color.ch[i]
          /\ out.slice[Alpha_num_channels] = inp.self.alpha
    /\ AlphaOps(<<"as_slice", "from_slice">>) => status = "ok" /\ out = inp.self

C23_Witness ==
    /\ AlphaOps(<<"as_slice", "from_slice">>)
    /\ inp.self.color.tag = "Rgb"
    /\ inp.self.color.ch = <<IntVal("u8", <<100>>), IntVal("u8", <<0>>), IntVal("u8", <<255>>)>>
    /\ inp.self.alpha = IntVal("u8", <<255>>)
    /\ out = inp.self

\* the values of the outcomes that are not a panic
Values(os) == {o.val : o \in {p \in os : p.st = "ok"}}

\* C24: Alpha delegates every contract operation channel-group-wise: for
\* invert, normalize, lerp and clamp the colour of the result is the
\* operation applied to the inner colour(s) alone and the alpha of the result
\* is the operation applied to the alpha channel(s) alone, and is_normalized
\* is the conjunction of both parts.
C24_AlphaDelegates ==
    /\ AlphaOps(<<"invert">>) =>
          out.color = color_invert(inp.self.color) /\ out.alpha = invert("pos", inp.self.alpha)
    /\ AlphaOps(<<"normalize">>) =>
          out.color = color_normalize(inp.self.color) /\ out.alpha = normalize("pos", inp.self.alpha)
    /\ AlphaOps(<<"clamp">>) =>
          /\ out.color = color_clamp(inp.self.color, trace[1].val.min, trace[1].val.max)
          /\ out.alpha = clamp(inp.self.alpha, trace[1].val.min, trace[1].val.max)
    /\ (AlphaOps(<<"lerp">>) /\ status = "ok") =>
          /\ out.color \in Values(color_lerp(inp.self.color, trace[1].val.right.color, trace[1].val.pos))
          /\ out.alpha \in Values(channel_lerp(inp.self.alpha, trace[1].val.right.alpha, trace[1].val.pos))
    /\ AlphaOps(<<"is_normalized">>) =>
          trace[1].val = (color_is_normalized(inp.self.color) /\ is_normalized("pos", inp.self.alpha))

C24_Witness ==
    /\ AlphaOps(<<"lerp">>)
    /\ status = "ok"
    /\ inp.self.alpha.ty = "f32"
    /\ trace[1].val.pos = Lit("f32", 1, 2)
    /\ out.color.ch[1] # inp.self.color.ch[1]
    /\ out.alpha # inp.self.alpha
    /\ out.alpha # out.color.ch[1]

\* C25: from_slice on a slice shorter than the colour's channel count aborts
\* instead of returning a colour: Alpha::from_slice with fewer than inner + 1
\* elements and YCbCr::from_slice with fewer than 3 elements.
C25_ShortSliceAborts ==
    ("self" \in DOMAIN inp /\ "slice" \in DOMAIN inp.self /\ Len(trace) = 1
        /\ Len(inp.self.slice) < (IF inp.of[1] = "Alpha" THEN color_num_channels + 1 ELSE 3)) =>
        status = "abort" /\ out = inp.self

C25_Witness ==
    /\ "self" \in DOMAIN inp
    /\ inp.of = <<"Alpha", "YCbCr">>
    /\ "slice" \in DOMAIN inp.self
    /\ Len(inp.self.slice) = 3
    /\ trace = <<Op("from_slice", FALSE)>>
    /\ status = "abort"

\* value / period of an angle, in its own float type
Fraction(a) == DivF(a.val, period(a.unit, a.val.ty))

AngleCast == "angle" \in DOMAIN inp /\ trace = <<"cast">>

\* C26: casting an angle from one unit to another (among Deg, Rad, Turns,
\* ArcMinutes, ArcSeconds) casts the scalar and multiplies by target_period /
\* source_period, so value / period is the same before and after the cast
\* (e.g. Deg(180) -> Turns(0.5)).
C26_AngleCastKeepsFraction ==
    AngleCast =>
        /\ out.unit = inp.to.unit /\ out.val.ty = inp.to.ty
        /\ CmpF(Fraction(out), Fraction(inp.angle)) = 0

\* C26 (amended): the cast multiplies the cast scalar by target_period /
\* source_period in the float type of the target, so value / period is the
\* same before and after up to the rounding of that arithmetic (within 1e-6
\* of itself); Deg(180) -> Turns(0.5) is exact.
C26_AngleCastNearFraction ==
    AngleCast =>
        /\ out.unit = inp.to.unit /\ out.val.ty = inp.to.ty
        /\ RelNear(Fraction(out), Fraction(inp.angle))
        /\ (inp.angle.unit = "Deg" /\ inp.to.unit = "Turns" /\ CmpF(inp.angle.val, Lit("f64", 180, 1)) = 0)
              => out.val = OneHalf(inp.to.ty)

C26_Witness ==
    /\ AngleCast
    /\ inp.angle = Angle("Deg", Lit("f32", 180, 1))
    /\ inp.to = [unit |-> "Turns", ty |-> "f64"]
    /\ out = Angle("Turns", OneHalf("f64"))

\* the last operation was a setter, which returned or panicked: inp is the
\* colour before it, out the colour the run holds after it
SetterCalled == "Y" \in DOMAIN inp /\ Len(trace) >= 2

OutOfUnit(v) == CmpF(v, Zero(v.ty)) < 0 \/ CmpF(v, One(v.ty)) > 0

\* C27: set_x, set_y and set_z panic when their argument is below 0 or
\* above 1, and only then; the panic comes before any channel is assigned,
\* so x, y and Y hold the values they had before the call.
C27_SetterAbortsOutOfRange ==
    SetterCalled =>
        /\ status = "abort" <=> OutOfUnit(LastOp.val)
        /\ status = "abort" => out = inp

C27_Witness ==
    /\ SetterCalled
    /\ LastOp.op = "set_y"
    /\ CmpF(LastOp.val, Zero(inp.ty)) < 0
    /\ status = "abort"
    /\ out = inp

\* the type of the channels of a colour
TypeOf(c) == Channels(c)[1].ty

\* C28 as stated: a symmetric channel has bounds symmetric about zero in
\* every representation, min_bound() = -max_bound(): [-1, 1] for f32 and
\* f64, [-max, max] for u8, u16 and u32.
C28_SymmetricBounds ==
    IsChanRun =>
        LET lo == min_bound("sym", TypeOf(inp))
            hi == max_bound("sym", TypeOf(inp))
        IN  IF TypeOf(inp) \in IntTypes THEN IsZeroL(AddL(lo.num, hi.num))
            ELSE lo = FNeg(hi)

\* C28, amended: the bounds of a symmetric channel are [-1, 1] for f32 and
\* f64, where min_bound() = -max_bound(); for the unsigned integer types
\* u8, u16 and u32 they are [0, max], the whole range of the type, and
\* min_bound() is 0, not -max_bound().  A normalized chroma channel lies
\* within them.
C28_BoundsOfSymmetric ==
    IsChanRun =>
        LET lo == min_bound("sym", TypeOf(inp))
            hi == max_bound("sym", TypeOf(inp))
        IN  /\ IF TypeOf(inp) \in IntTypes
               THEN /\ lo = IntVal(TypeOf(inp), Zeros(Limbs(TypeOf(inp))))
                    /\ hi = IntVal(TypeOf(inp), MaxL(Limbs(TypeOf(inp))))
               ELSE /\ hi = One(TypeOf(inp))
                    /\ lo = FNeg(hi)
            /\ (OpsAre(<<"normalize">>) /\ "ch" \in DOMAIN inp /\ inp.tag = "YCbCr") =>
                  \A i \in 2..3 :
                      IF TypeOf(inp) \in IntTypes
                      THEN LeqL(lo.num, out.ch[i].num) /\ LeqL(out.ch[i].num, hi.num)
                      ELSE CmpF(lo, out.ch[i]) <= 0 /\ CmpF(out.ch[i], hi) <= 0

\* an integer colour whose chroma channels sit on the two bounds, 0 and the
\* maximum of the type, and are left there by normalize
C28_Witness ==
    /\ OpsAre(<<"normalize">>)
    /\ "ch" \in DOMAIN inp
    /\ inp.tag = "YCbCr"
    /\ out.ch[2] = max_bound("sym", "u16")
    /\ out.ch[3] = min_bound("sym", "u16")
    /\ out.ch[3].num = <<0, 0>>

\* C29: widening then narrowing is the identity: for unsigned widths n < m
\* and every n-bit value v, the cast of v to m bits and back to n bits
\* returns v exactly.
C29_WidenNarrowIdentity ==
    ("num" \in DOMAIN inp /\ Len(trace) = 3 /\ trace[1] \in IntTypes /\ trace[2] \in IntTypes
        /\ Limbs(trace[1]) < Limbs(trace[2]) /\ trace[3] = trace[1]) =>
        status = "ok" /\ out = inp

\* C30: for integer channels (u8, u16, u32) and every position t with
\* 0 <= t <= 1, lerp(left, right, t) never aborts and returns a value
\* between min(left, right) and max(left, right) inclusive.
C30_IntLerpStaysBetween ==
    ("lerp" \in DOMAIN inp /\ trace = <<"lerp">>
        /\ CmpF(inp.lerp.pos, Zero("f64")) >= 0 /\ CmpF(inp.lerp.pos, One("f64")) <= 0) =>
        /\ status = "ok"
        /\ LeqL(inp.lerp.left.num, out.num) \/ LeqL(inp.lerp.right.num, out.num)
        /\ LeqL(out.num, inp.lerp.left.num) \/ LeqL(out.num, inp.lerp.right.num)

====
